---- MODULE Spec2Model ----
(***************************************************************************)
(* The clone handler of api/duplicate.ts, its hierarchy-restoring variant  *)
(* and its failure-counting variant (unnamed/part_000): one invocation of  *)
(* the handler against the remote Notion                                   *)
(* service.  JavaScript runs one continuation at a time, so every action   *)
(* is the code between two suspension points: it consumes the settlement   *)
(* of the remote call(s) the handler awaits and runs up to the next await. *)
(***************************************************************************)
EXTENDS Integers, Sequences, FiniteSets, TLC

VARIABLES
  variant,        \* which handler runs: "flat", "hierarchy", "tracking" (the one
                  \* that counts failures), "pair" (the flat one, twice),
                  \* "health", or "none" (a pure function on its own)
  req,            \* the request: method and process.env as seen by the handler
  pc,             \* the await the handler is suspended at, or "start"/"done"
  sent,           \* responses written to res, in order
  remote,         \* log of the remote calls issued so far, in issue order
  sourceDatabase, \* the schema retrieveSchema answered
  newDatabase,    \* the database createDatabase answered
  allPages,       \* copyDatabaseContent: rows accumulated by the query loop
  hasMore,        \* copyDatabaseContent: has_more of the last response
  startCursor,    \* copyDatabaseContent: cursor of the next query
  i,              \* copyDatabaseContent: start index of the current batch (0-based)
  copiedCount,    \* copyDatabaseContent: fulfilled creations counted so far; in the
                  \* handler that counts failures, results counted so far
  successfulCopies, \* copyDatabaseContent of that handler: successes counted so far
  failedCopies,   \* copyDatabaseContent of that handler: failures counted so far
  batchPromises,  \* copyDatabaseContent: indices into remote of the batch awaited
  batches,        \* number of batches copyDatabaseContent has started
  pages,          \* number of pages the service has answered to the running pagination
  source,         \* the source database held by the service: its schema and rows
  written,        \* the service's Sub-items relation of each target row updated so far
  hier,           \* restoreHierarchy and applyRelationships: their local variables
  fn,             \* a pure function called on its own: its argument and what it returned
  runs            \* two invocations of the handler in one process: the locals of each

vars == <<variant, req, pc, sent, remote, sourceDatabase, newDatabase, allPages,
          hasMore, startCursor, i, copiedCount, successfulCopies, failedCopies,
          batchPromises, batches, pages, source, written, hier, fn, runs>>

----------------------------------------------------------------------------
(* Bounds of the model *)
MaxPageRows == 4    \* rows the service puts in one page (page_size asks for up to 100)
MaxRows == 11       \* rows of the source database
HierMaxRows == 3    \* rows of a source database with Sub-items relations
HierPageRows == 2   \* rows the service puts in one page of such a database
MaxEdges == 2       \* entries of all Sub-items relations of a source database
MaxFields == 3      \* entries of a schema or of a row's properties
MaxOptions == 3     \* options of a select field
MaxQueries == 3       \* answers of the service that drop the cursor, per pagination
LossyRows == 2        \* rows of a database whose service drops cursors

(* Program constants *)
BATCH_SIZE == 10        \* copyDatabaseContent: rows per batch
EDGE_BATCH_SIZE == 5    \* applyRelationships: its BATCH_SIZE, relationships per batch

----------------------------------------------------------------------------
(* Small helpers *)
Min(a, b) == IF a < b THEN a ELSE b

Range(s) == {s[k] : k \in 1..Len(s)}

\* Array.prototype.slice(from, to) with 0-based, end-exclusive indices
Slice(s, from, to) == SubSeq(s, from + 1, Min(to, Len(s)))

\* Math.ceil(n / d)
CeilDiv(n, d) == (n + d - 1) \div d

----------------------------------------------------------------------------
(* Identifiers.  An identifier is a sequence of characters. *)
HexChars == {"0","1","2","3","4","5","6","7","8","9",
             "a","b","c","d","e","f","A","B","C","D","E","F"}

Rep(c, n) == [k \in 1..n |-> c]

\* "12345678-1234-1234-1234-123456789012"-shaped identifier
GoodId == Rep("1", 8) \o <<"-">> \o Rep("a", 4) \o <<"-">> \o Rep("B", 4)
          \o <<"-">> \o Rep("0", 4) \o <<"-">> \o Rep("f", 12)

\* "invalid-id"
BadId == <<"i","n","v","a","l","i","d","-","i","d">>

Unset == <<>>

IdSamples == {GoodId, BadId, Unset}

\* a faulty variant: the hyphens stay
KeepHyphens(id) == id

\* id.replace(/-/g, "")
StripHyphens(id) == SelectSeq(id, LAMBDA c : c # "-")

\* validateNotionId: TRUE iff it returns without throwing
validateNotionId(id) ==
  LET cleanId == StripHyphens(id)
  IN  Len(cleanId) = 32 /\ \A k \in 1..Len(cleanId) : cleanId[k] \in HexChars

\* a faulty variant: PARENT_PAGE_ID is not looked at
validateEnvironmentWithoutParent(env) ==
  /\ env.NOTION_TOKEN
  /\ env.SOURCE_DATABASE_ID # Unset

\* validateEnvironment: TRUE iff it returns without throwing
validateEnvironment(env) ==
  /\ env.NOTION_TOKEN
  /\ env.SOURCE_DATABASE_ID # Unset
  /\ env.PARENT_PAGE_ID # Unset

\* the variable validateEnvironment names in the error it throws: the first
\* one it finds unset
MissingVariable(env) ==
  IF ~env.NOTION_TOKEN THEN "NOTION_TOKEN"
  ELSE IF env.SOURCE_DATABASE_ID = Unset THEN "SOURCE_DATABASE_ID"
  ELSE "PARENT_PAGE_ID"

----------------------------------------------------------------------------
(* Schemas and row properties.  A JavaScript object is the list of its     *)
(* entries in key order; a schema entry is a field definition, a row entry *)
(* a field value.                                                          *)

\* a field definition; hasOptions tells whether it has select.options
Field(name, type) == [name |-> name, type |-> type, hasOptions |-> FALSE, options |-> <<>>]

SelectField(name, options) ==
  [name |-> name, type |-> "select", hasOptions |-> TRUE, options |-> options]

\* the schema of a source database with a Sub-items relation
SourceSchema ==
  << Field("Name", "title"),
     Field("Status", "select"),
     Field("Sub-items", "relation"),
     Field("Edited", "last_edited_time") >>

\* a schema with a select field whose last option is Done, and a relation
ExampleSchema ==
  << Field("Name", "title"),
     SelectField("Status", <<"To Do", "In Progress", "Done">>),
     Field("Related", "relation") >>

\* the schema of a source database whose rows name their sub-items and their
\* parents
ParentSchema ==
  << Field("Name", "title"),
     Field("Sub-items", "relation"),
     Field("Parent item", "relation") >>

\* the schema of a source database without any relation
PlainSchema == << Field("Name", "title"), Field("Status", "select") >>

\* a faulty variant: rollup fields are kept
filterDatabaseSchemaPropertiesKeepingRollup(properties) ==
  SelectSeq(properties, LAMBDA prop : prop.type # "relation")

\* a faulty variant: the fields come out in reverse order
filterDatabaseSchemaPropertiesReversed(properties) ==
  LET kept == SelectSeq(properties, LAMBDA prop : prop.type \notin {"relation", "rollup"})
  IN  [k \in 1..Len(kept) |-> kept[Len(kept) + 1 - k]]

filterDatabaseSchemaProperties(properties) ==
  SelectSeq(properties, LAMBDA prop : prop.type \notin {"relation", "rollup"})

CreationDropped == {"relation", "rollup", "formula", "created_by", "last_edited_by",
                    "created_time", "last_edited_time"}

\* a faulty variant: only the kinds the schema filter skips are skipped
filterPropertiesForCreationAsSchema(properties) ==
  SelectSeq(properties, LAMBDA prop : prop.type \notin {"relation", "rollup"})

filterPropertiesForCreation(properties) ==
  SelectSeq(properties, LAMBDA prop : prop.type \notin CreationDropped)

----------------------------------------------------------------------------
(* Errors.  An error is its message, a message the list of its phrases:    *)
(* the ones the handler's catch block looks for are phrases of their own.  *)

\* `${name} environment variable is required`
EnvError(name) == <<name, "environment variable", "is required">>

\* a faulty variant: the message does not say which identifier it is about
IdErrorUnnamed(idType) == <<"Invalid", "format", "Must be 32 characters">>

\* `Invalid ${idType} format. Must be 32 characters.`
IdError(idType) == <<"Invalid", idType, "format", "Must be 32 characters">>

\* the messages of the errors of the service
RemoteErrors == {<<"Could not find">>, <<"Unauthorized">>, <<"other">>}

\* error.message.includes(phrase)
Includes(message, phrase) == \E k \in 1..Len(message) : message[k] = phrase

\* a faulty variant: every failure is answered with status 500
StatusOfUnclassified(error) == 500

\* the catch block of handler: the status code it answers with
StatusOf(error) ==
  IF Includes(error, "environment variable") THEN 500
  ELSE IF Includes(error, "Invalid") /\ Includes(error, "format") THEN 500
  ELSE IF Includes(error, "Could not find") THEN 404
  ELSE IF Includes(error, "Unauthorized") THEN 401
  ELSE 500

\* the catch block of handler: the error text it answers with
MessageOf(error) ==
  IF Includes(error, "environment variable") THEN "Server configuration error"
  ELSE IF Includes(error, "Invalid") /\ Includes(error, "format")
    THEN "Invalid database or page ID format in configuration"
  ELSE IF Includes(error, "Could not find")
    THEN "Database or page not found. Check permissions and IDs in configuration."
  ELSE IF Includes(error, "Unauthorized")
    THEN "Unauthorized. Check Notion token and permissions."
  ELSE "Failed to clone database"

\* a faulty variant: no header is set
NoHeaders == <<>>

\* the headers handler sets on res before anything else
CorsHeaders ==
  << [name |-> "Access-Control-Allow-Origin", value |-> "*"],
     [name |-> "Access-Control-Allow-Methods", value |-> "POST, OPTIONS"],
     [name |-> "Access-Control-Allow-Headers", value |-> "Content-Type, Authorization"] >>

\* the response of the catch block; details is the message when NODE_ENV is
\* "development" and undefined (no phrase) otherwise
ErrorResponse(error, development) ==
  [status |-> StatusOf(error), kind |-> "error", headers |-> CorsHeaders,
   error |-> MessageOf(error), details |-> IF development THEN error ELSE <<>>]

\* res.status(200).end() of a preflight request
EndResponse == [status |-> 200, kind |-> "end", headers |-> CorsHeaders]

\* the response to a request that is neither POST nor OPTIONS
MethodNotAllowed ==
  [status |-> 405, kind |-> "error", headers |-> CorsHeaders,
   error |-> "Method not allowed",
   message |-> "Only POST requests are allowed for this endpoint"]

----------------------------------------------------------------------------
(* The remote service.  A call is logged when it is issued and settles     *)
(* later, fulfilled or rejected; the service decides which.                *)
NoCursor == <<>>

TargetDatabaseId == Rep("d", 32)

NoDatabase == [id |-> <<>>, properties |-> <<>>]

Call(op, target, row, batch, cursor, properties) ==
  [op |-> op, status |-> "pending", target |-> target, row |-> row, batch |-> batch,
   cursor |-> cursor, properties |-> properties, error |-> <<>>]

retrieveSchema(databaseId) == Call("retrieveSchema", databaseId, 0, 0, NoCursor, <<>>)

createDatabase(parentId, properties) ==
  Call("createDatabase", parentId, 0, 0, NoCursor, properties)

queryRows(databaseId, cursor) == Call("queryRows", databaseId, 0, 0, cursor, <<>>)

createRow(databaseId, row, batch, properties) ==
  Call("createRow", databaseId, row, batch, NoCursor, properties)

updateSchema(databaseId) ==
  Call("updateSchema", databaseId, 0, 0, NoCursor,
       <<[name |-> "Sub-items", type |-> "relation"]>>)

\* row is the number of the relationship the call is made for
retrieveRow(pageId, edge, batch) == Call("retrieveRow", pageId, edge, batch, NoCursor, <<>>)

updateRow(pageId, edge, batch, subItems) ==
  Call("updateRow", pageId, edge, batch, NoCursor, subItems)

Settle(log, k, status) == [log EXCEPT ![k].status = status]

\* call k rejects with an error of message error
Reject(log, k, error) == [log EXCEPT ![k].status = "rejected", ![k].error = error]

Pending(log, op) == {k \in 1..Len(log) : log[k].op = op /\ log[k].status = "pending"}

Calls(log, op) == {k \in 1..Len(log) : log[k].op = op}

\* A row (page object) of a database.  A partial page object has no properties.
\* title is the title array (its plain_text runs), subItems the Sub-items
\* relation, parentItems the Parent item relation.
Row(id, full, title, subItems) ==
  [id |-> id, hasProperties |-> full, title |-> title, subItems |-> subItems,
   parentItems |-> <<>>]

\* page.properties of a row of the source: one value per field of its schema
RowProperties(row) ==
  [k \in 1..Len(source.properties) |->
     [name |-> source.properties[k].name, type |-> source.properties[k].type,
      value |-> IF source.properties[k].type = "title" THEN row.title
                ELSE IF source.properties[k].type = "relation"
                THEN IF source.properties[k].name = "Parent item" THEN row.parentItems
                     ELSE row.subItems
                ELSE <<>>]]

\* the title array a createRow call carries, if any
TitleOfPayload(properties) ==
  LET titles == SelectSeq(properties, LAMBDA prop : prop.type = "title")
  IN  IF titles = <<>> THEN <<>> ELSE titles[1].value

\* the Sub-items relation the service holds for a target row
Relation(rel, pageId) == IF pageId \in DOMAIN rel THEN rel[pageId] ELSE <<>>

\* the identifier of the k-th row of the source database
SourceRowId(k) == <<"s", k>>

\* the identifier the service gives the row created by call k of the log
TargetRowId(k) == <<"t", k>>

\* the rows of the target database: one per fulfilled createRow, in creation order
TargetRows(log, rel) ==
  LET created == SelectSeq([k \in 1..Len(log) |-> k],
                           LAMBDA k : log[k].op = "createRow" /\ log[k].status = "fulfilled")
  IN  [n \in 1..Len(created) |->
         Row(TargetRowId(created[n]), TRUE, TitleOfPayload(log[created[n]].properties),
             Relation(rel, TargetRowId(created[n])))]

\* The service pages through the rows of a database by offset: the cursor it
\* hands out is the offset of the next page.
CursorOf(offset) == <<offset>>

OffsetOf(cursor) == IF cursor = NoCursor THEN 0 ELSE cursor[1]

\* the size of the page the service answers with: a full page of cap rows
\* while that many are left, and the rest on the last page
PageSizes(rows, offset, cap) == {Min(cap, Len(rows) - offset)}

\* the response to a query at cursor with a page of n rows
QueryResponse(rows, cursor, n) ==
  LET offset == OffsetOf(cursor)
      more == offset + n < Len(rows)
  IN  [results |-> SubSeq(rows, offset + 1, offset + n),
       has_more |-> more,
       next_cursor |-> IF more THEN CursorOf(offset + n) ELSE NoCursor]

\* the service drops cursors when it pages through the source database
DropsCursor == "dropsCursor" \in DOMAIN source

\* the answers the service may give to a query at cursor with a page of n rows:
\* the response above, and, from a service that drops cursors, the same page
\* with has_more true and no next_cursor (MaxQueries times in a pagination at
\* most)
Answers(rows, cursor, n) ==
  {QueryResponse(rows, cursor, n)}
    \cup IF DropsCursor /\ pages < MaxQueries
         THEN {[QueryResponse(rows, cursor, n) EXCEPT !.has_more = TRUE,
                                                      !.next_cursor = NoCursor]}
         ELSE {}

----------------------------------------------------------------------------
(* JavaScript objects as ordered lists of entries *)

\* the position of key in obj, 0 if obj has no such key
IndexOfKey(obj, key) ==
  LET hits == {k \in 1..Len(obj) : obj[k].name = key}
  IN  IF hits = {} THEN 0 ELSE CHOOSE k \in hits : TRUE

\* obj[key] = value: an existing key keeps its position, a new key goes last
Put(obj, key, value) ==
  IF IndexOfKey(obj, key) # 0
  THEN [obj EXCEPT ![IndexOfKey(obj, key)] = [value EXCEPT !.name = key]]
  ELSE Append(obj, [value EXCEPT !.name = key])

\* { ...target, ...from }
RECURSIVE Spread(_, _)
Spread(target, from) ==
  IF from = <<>> THEN target
  ELSE Spread(Put(target, Head(from).name, Head(from)), Tail(from))

\* Object.keys(obj)
Keys(obj) == [k \in 1..Len(obj) |-> obj[k].name]

----------------------------------------------------------------------------
(* The handler that counts failures (unnamed/part_000, first handler):    *)
(* what it adds to the schema and to the rows it sends                     *)

\* getPageTitle: the plain text of the first run of the first non-empty title
\* property; "" stands for null (both are falsy, and neither matches a title)
getPageTitle(page) ==
  IF ~page.hasProperties THEN ""
  ELSE LET titles == SelectSeq(RowProperties(page),
                               LAMBDA prop : prop.type = "title" /\ Len(prop.value) > 0)
       IN  IF titles = <<>> THEN "" ELSE titles[1].value[1]

\* getPageTitle of the handler that counts failures: 'Untitled' for a page
\* without title text (the page has properties: Object.entries throws otherwise)
getPageTitleOrUntitled(page) ==
  IF getPageTitle(page) = "" THEN "Untitled" ELSE getPageTitle(page)

\* hierarchyMap as the list of its set(childTitle, parentTitle) calls in order:
\* for each page of rest, one per entry of its Sub-items relation that is a
\* page of fetched (the page is the parent), then one per such entry of its
\* Parent item relation (the page is the child)
RECURSIVE hierarchyMap(_, _)
hierarchyMap(rest, fetched) ==
  IF rest = <<>> THEN <<>>
  ELSE LET page == Head(rest)
           relationOf(name) ==
             LET props == SelectSeq(RowProperties(page),
                                    LAMBDA prop : prop.name = name /\ prop.type = "relation")
             IN  IF props = <<>> THEN <<>> ELSE props[1].value
           found(ids) ==
             SelectSeq(ids, LAMBDA id : \E n \in 1..Len(fetched) : fetched[n].id = id)
           titleOf(id) ==
             getPageTitleOrUntitled(fetched[CHOOSE n \in 1..Len(fetched) :
                                            /\ fetched[n].id = id
                                            /\ \A m \in 1..(n - 1) : fetched[m].id # id])
           subItems == found(relationOf("Sub-items"))
           parentItems == found(relationOf("Parent item"))
       IN  [n \in 1..Len(subItems) |->
              [child |-> titleOf(subItems[n]), parent |-> getPageTitleOrUntitled(page)]]
             \o [n \in 1..Len(parentItems) |->
                   [child |-> getPageTitleOrUntitled(page), parent |-> titleOf(parentItems[n])]]
             \o hierarchyMap(Tail(rest), fetched)

\* the properties sent to notion.databases.create: the filtered schema, to
\* which the handler that counts failures adds the fields Test Suite and Last
\* Edited By
SchemaSent(properties) ==
  IF variant = "tracking"
  THEN Put(Put(filterDatabaseSchemaProperties(properties),
               "Test Suite", Field("Test Suite", "rich_text")),
           "Last Edited By", Field("Last Edited By", "last_edited_by"))
  ELSE filterDatabaseSchemaProperties(properties)

\* the properties sent to notion.pages.create for page: the filtered properties,
\* to which the handler that counts failures adds the field Test Suite with
\* hierarchyMap.get(title of the page), if any
RowSent(rows, page) ==
  IF variant = "tracking"
  THEN LET entries == hierarchyMap(rows, rows)
           hits == {n \in 1..Len(entries) : entries[n].child = getPageTitleOrUntitled(page)}
           parentTitle ==
             IF hits = {} THEN ""
             ELSE entries[CHOOSE n \in hits : \A m \in hits : m <= n].parent
       IN  Put(filterPropertiesForCreation(RowProperties(page)), "Test Suite",
               [name |-> "Test Suite", type |-> "rich_text",
                value |-> IF parentTitle = "" THEN <<>> ELSE <<parentTitle>>])
  ELSE filterPropertiesForCreation(RowProperties(page))

----------------------------------------------------------------------------
(* The handler's responses *)

\* a faulty variant: the response is sent without return, and the handler goes on
RespondWithoutReturn(response) ==
  /\ sent' = Append(sent, response)
  /\ pc' = pc

\* return res.status(...).json(...), or return res.status(200).end()
Respond(response) ==
  /\ sent' = Append(sent, response)
  /\ pc' = "done"

Success(count) ==
  [status |-> 200, kind |-> "success", headers |-> CorsHeaders,
   newDatabaseId |-> newDatabase.id, copiedPagesCount |-> count]

\* the catch block of handler
\* a faulty variant: the catch block answers as if the clone had succeeded
CatchAsSuccess(error) == Respond(Success(0))

Catch(error) == Respond(ErrorResponse(error, req.env.NODE_ENV = "development"))

----------------------------------------------------------------------------
(* copyDatabaseContent *)

\* a faulty variant: the batch is taken as settled once any of its calls has
\* settled (Promise.race in place of Promise.allSettled)
AnySettled(log, promises) ==
  promises = <<>> \/ \E k \in Range(promises) : log[k].status # "pending"

\* a faulty variant: the batch is awaited until every call is fulfilled
AllFulfilled(log, promises) == \A k \in Range(promises) : log[k].status = "fulfilled"

\* Promise.allSettled(promises) has resolved
AllSettled(log, promises) == \A k \in Range(promises) : log[k].status # "pending"

\* a faulty variant: every result is counted, fulfilled or rejected
CountResults(log, promises) == Cardinality(Range(promises))

\* results.forEach: the number of fulfilled results
CountFulfilled(log, promises) ==
  Cardinality({k \in Range(promises) : log[k].status = "fulfilled"})

\* the rows of a batch that pass the filter 'properties' in page
WithProperties(batch) == SelectSeq(batch, LAMBDA page : page.hasProperties)

\* a faulty variant: the loop steps one row short, so batches overlap by a row
NextIndexOverlapping(from) == from + BATCH_SIZE - 1

\* for (...; i += BATCH_SIZE)
NextIndex(from) == from + BATCH_SIZE

\* a faulty variant: the slice has no end, so the batch is all the rows left
BatchOfRest(rows, from) == Slice(rows, from, Len(rows))

\* the batch starting at index from: allPages.slice(from, from + BATCH_SIZE)
BatchOf(rows, from) == Slice(rows, from, from + BATCH_SIZE)

\* a faulty variant: the rows are created in the source database
BatchCallsToSource(rows, from, batch, databaseId) ==
  LET kept == WithProperties(BatchOf(rows, from))
  IN  [k \in 1..Len(kept) |->
         createRow(req.env.SOURCE_DATABASE_ID, kept[k].id, batch,
                   filterPropertiesForCreation(RowProperties(kept[k])))]

\* the createRow calls of the batch starting at index from, as issued by .map
BatchCalls(rows, from, batch, databaseId) ==
  LET kept == WithProperties(BatchOf(rows, from))
  IN  [k \in 1..Len(kept) |->
         createRow(databaseId, kept[k].id, batch, RowSent(rows, kept[k]))]

\* a faulty variant: the page replaces the rows fetched so far
AccumulateLast(rows, results) == results

\* allPages = allPages.concat(response.results)
Accumulate(rows, results) == rows \o results

\* startCursor = response.next_cursor || undefined
NextCursor(response) == response.next_cursor

\* the handler's continuation after copyDatabaseContent returned count: the
\* flat handler answers; the hierarchy handler enters
\* addSubItemsFieldAndRestoreHierarchy, which issues notion.databases.update
AfterCopy(count, log) ==
  IF variant \in {"flat", "tracking"}
  THEN /\ remote' = log
       /\ Respond(Success(count))
  ELSE /\ remote' = Append(log, updateSchema(newDatabase.id))
       /\ pc' = "updateSchema"
       /\ UNCHANGED sent

\* a faulty variant: the creations are issued and never awaited, so
\* copyDatabaseContent returns at once
BatchLoopUnawaited(rows, from, count, log) ==
  /\ AfterCopy(count, log \o BatchCalls(rows, 0, batches + 1, newDatabase.id))
  /\ batchPromises' = <<>>
  /\ i' = from
  /\ copiedCount' = count
  /\ UNCHANGED batches

\* the batch loop from index from on: the next batch is issued and awaited, or
\* the loop is over and copyDatabaseContent returns count
BatchLoop(rows, from, count, log) ==
  IF from < Len(rows)
  THEN LET calls == BatchCalls(rows, from, batches + 1, newDatabase.id)
       IN  /\ remote' = log \o calls
           /\ batchPromises' = [k \in 1..Len(calls) |-> Len(log) + k]
           /\ batches' = batches + 1
           /\ i' = from
           /\ copiedCount' = count
           /\ pc' = "batch"
           /\ UNCHANGED sent
  ELSE /\ AfterCopy(count, log)
       /\ batchPromises' = <<>>
       /\ i' = from
       /\ copiedCount' = count
       /\ UNCHANGED batches

----------------------------------------------------------------------------
(* restoreHierarchy and its helpers *)

\* a faulty variant: the last page of that title is found
FindLastByTitle(targetPages, title) ==
  LET hits == {n \in 1..Len(targetPages) : getPageTitle(targetPages[n]) = title}
  IN  IF hits = {} THEN 0 ELSE CHOOSE n \in hits : \A m \in hits : n >= m

\* targetPages.find(target => getPageTitle(target) === title): its index, 0 if none
FindByTitle(targetPages, title) ==
  LET hits == {n \in 1..Len(targetPages) : getPageTitle(targetPages[n]) = title}
  IN  IF hits = {} THEN 0 ELSE CHOOSE n \in hits : \A m \in hits : n <= m

\* createPageMapping: source row id -> id of the first target row of the same title
createPageMapping(sourcePages, targetPages) ==
  LET mapped == {n \in 1..Len(sourcePages) :
                   /\ getPageTitle(sourcePages[n]) # ""
                   /\ FindByTitle(targetPages, getPageTitle(sourcePages[n])) # 0}
  IN  [id \in {sourcePages[n].id : n \in mapped} |->
         LET n == CHOOSE m \in mapped : sourcePages[m].id = id
         IN  targetPages[FindByTitle(targetPages, getPageTitle(sourcePages[n]))].id]

\* the relationships one page contributes: one per entry of its Sub-items relation
SubItemsOf(page) ==
  IF ~page.hasProperties THEN <<>>
  ELSE LET props == SelectSeq(RowProperties(page),
                              LAMBDA prop : prop.name = "Sub-items" /\ prop.type = "relation")
       IN  IF props = <<>> THEN <<>>
           ELSE [n \in 1..Len(props[1].value) |->
                   [parentId |-> page.id, childId |-> props[1].value[n]]]

\* findHierarchicalRelationships
RECURSIVE findHierarchicalRelationships(_)
findHierarchicalRelationships(sourcePages) ==
  IF sourcePages = <<>> THEN <<>>
  ELSE SubItemsOf(Head(sourcePages)) \o findHierarchicalRelationships(Tail(sourcePages))

NoHier ==
  [fetching |-> "none", allPages |-> <<>>, hasMore |-> TRUE, startCursor |-> NoCursor,
   sourcePages |-> <<>>, targetPages |-> <<>>, pageMapping |-> <<>>,
   relationships |-> <<>>, j |-> 0, edgePromises |-> <<>>]

\* the rows the service puts in one page
PageCap == IF variant = "flat" THEN MaxPageRows ELSE HierPageRows

\* the rows the service holds for a database
DatabaseRows(databaseId) ==
  IF databaseId = TargetDatabaseId THEN TargetRows(remote, written) ELSE source.rows

----------------------------------------------------------------------------
(* The schema filters of test/property-filter.test.ts *)

DoneNames == {"Done", "done", "DONE"}

\* options.findIndex(option => option.name is Done, done or DONE), 1-based; 0 if none
FindDoneIndex(options) ==
  LET hits == {k \in 1..Len(options) : options[k] \in DoneNames}
  IN  IF hits = {} THEN 0 ELSE CHOOSE k \in hits : \A m \in hits : k <= m

\* a faulty variant: the option found and the first option change places
SwapToFront(options, doneIndex) ==
  [k \in 1..Len(options) |->
     IF k = 1 THEN options[doneIndex]
     ELSE IF k = doneIndex THEN options[1]
     ELSE options[k]]

\* options.splice(doneIndex, 1) followed by options.unshift(doneOption)
SpliceToFront(options, doneIndex) ==
  <<options[doneIndex]>> \o SubSeq(options, 1, doneIndex - 1)
                         \o SubSeq(options, doneIndex + 1, Len(options))

\* moveDoneToFirst
moveDoneToFirst(selectProperty) ==
  IF ~selectProperty.hasOptions THEN selectProperty
  ELSE IF FindDoneIndex(selectProperty.options) > 1
       THEN [selectProperty EXCEPT
               !.options = SpliceToFront(selectProperty.options,
                                         FindDoneIndex(selectProperty.options))]
       ELSE selectProperty

\* a faulty variant: the select fields are put in after the other fields
filterDatabaseSchemaPropertiesSelectsLast(properties) ==
  LET others == SelectSeq(properties,
                          LAMBDA prop : prop.type \notin {"relation", "rollup", "select"})
      selects == SelectSeq(properties, LAMBDA prop : prop.type = "select")
  IN  others \o [k \in 1..Len(selects) |-> moveDoneToFirst(selects[k])]

\* filterDatabaseSchemaProperties of the test file's second suite: relation and
\* rollup fields are skipped, select fields go through moveDoneToFirst
filterDatabaseSchemaPropertiesDoneFirst(properties) ==
  LET kept == SelectSeq(properties, LAMBDA prop : prop.type \notin {"relation", "rollup"})
  IN  [k \in 1..Len(kept) |->
         IF kept[k].type = "select" THEN moveDoneToFirst(kept[k]) ELSE kept[k]]

PROPERTY_PREFIXES == ("Done" :> "1. ") @@ ("Last Edited By" :> "z. ")

\* `${prefix}${originalName}`
TemplateOf(prefix, originalName) ==
  IF prefix = "1. " /\ originalName = "Done" THEN "1. Done"
  ELSE IF prefix = "z. " /\ originalName = "Last Edited By" THEN "z. Last Edited By"
  ELSE "?"

shouldRenameProperty(propertyName) == propertyName \in DOMAIN PROPERTY_PREFIXES

getPrefixedName(originalName) ==
  IF originalName \in DOMAIN PROPERTY_PREFIXES
  THEN TemplateOf(PROPERTY_PREFIXES[originalName], originalName)
  ELSE originalName

\* renamedProperties of the loop: the fields to rename, under their prefixed names
RECURSIVE RenamedProperties(_)
RenamedProperties(kept) ==
  IF kept = <<>> THEN <<>>
  ELSE LET front == RenamedProperties(SubSeq(kept, 1, Len(kept) - 1))
           prop == kept[Len(kept)]
       IN  IF shouldRenameProperty(prop.name)
           THEN Put(front, getPrefixedName(prop.name), prop)
           ELSE front

\* filterDatabaseSchemaProperties of the test file's third suite: relation and
\* rollup fields are skipped, the fields of PROPERTY_PREFIXES are renamed and
\* put in front, and the "z. Last Edited By" field is set
filterDatabaseSchemaPropertiesPrefixed(properties) ==
  LET kept == SelectSeq(properties, LAMBDA prop : prop.type \notin {"relation", "rollup"})
      renamedProperties == RenamedProperties(kept)
      filteredProperties == SelectSeq(kept, LAMBDA prop : ~shouldRenameProperty(prop.name))
      reorderedProperties == Spread(renamedProperties, filteredProperties)
  IN  Put(reorderedProperties, getPrefixedName("Last Edited By"),
          Field("Last Edited By", "last_edited_by"))

----------------------------------------------------------------------------
(* Arguments of the pure functions *)

\* the sequences over S of length at most n without a repeated entry
DistinctSeqs(S, n) ==
  {q \in UNION {[1..m -> S] : m \in 0..n} :
     \A a, b \in 1..Len(q) : q[a] = q[b] => a = b}

\* the objects of at most n entries of S: no key twice
Objects(S, n) ==
  {q \in UNION {[1..m -> S] : m \in 0..n} :
     \A a, b \in 1..Len(q) : q[a].name = q[b].name => a = b}

OptionNames == {"Done", "done", "DONE", "To Do", "In Progress"}

\* select fields: without option list, and with every list of distinct options
SelectSamples ==
  {Field("Status", "select")}
    \cup {SelectField("Status", options) :
            options \in DistinctSeqs(OptionNames, MaxOptions)}

SchemaFieldSamples ==
  {Field("Name", "title"), Field("Done", "checkbox"),
   Field("Last Edited By", "last_edited_by"), Field("Related", "relation"),
   Field("Count", "rollup"), SelectField("Status", <<"To Do", "In Progress", "Done">>),
   Field("z. Last Edited By", "rich_text"), Field("1. Done", "number")}

\* schemas: objects of at most MaxFields sample fields, and single select fields
SchemaSamples ==
  Objects(SchemaFieldSamples, MaxFields)
    \cup {<<f>> : f \in SelectSamples}

Value(name, type, value) == [name |-> name, type |-> type, value |-> value]

PropertySamples ==
  {Value("Name", "title", <<"Test">>), Value("Done", "checkbox", <<"true">>),
   Value("1. Done", "number", <<"5">>),
   Value("Status", "select", <<"In Progress">>), Value("Related", "relation", <<"page-id">>),
   Value("Total Count", "rollup", <<"5">>), Value("Auto Calc", "formula", <<"computed">>),
   Value("Created By", "created_by", <<"user-id">>),
   Value("Last Edited By", "last_edited_by", <<"user-id">>),
   Value("Created", "created_time", <<"2023">>),
   Value("Last Edited", "last_edited_time", <<"2023">>)}

\* rows' properties: objects of at most MaxFields sample values
PropertiesSamples == Objects(PropertySamples, MaxFields)

\* identifiers: runs of one character followed by runs of another
IdChars == {"a", "F", "9", "g", "-"}

IdArguments ==
  IdSamples \cup {Rep(c, n) \o Rep(d, m) \o Rep(c, n) :
                    c \in IdChars, d \in IdChars, n \in {0, 8, 15, 16}, m \in {0, 1, 2, 32}}

NoCall ==
  [op |-> "none", of |-> "none", schema |-> <<>>, properties |-> <<>>, id |-> <<>>,
   returned |-> <<>>, threw |-> FALSE]

Arguments ==
  {[NoCall EXCEPT !.of = "schema", !.schema = schema] : schema \in SchemaSamples}
    \cup {[NoCall EXCEPT !.of = "select", !.schema = <<f>>] : f \in SelectSamples}
    \cup {[NoCall EXCEPT !.of = "properties", !.properties = properties] :
            properties \in PropertiesSamples}
    \cup {[NoCall EXCEPT !.of = "id", !.id = id] : id \in IdArguments}

----------------------------------------------------------------------------
Methods == {"OPTIONS", "POST", "GET", "DELETE"}

\* a source database of n rows, all full page objects or all partial ones
FlatSource(n, full) ==
  [properties |-> SourceSchema,
   rows |-> [k \in 1..n |-> Row(SourceRowId(k), full, <<ToString(k)>>, <<>>)]]

\* a source database of three rows with the schema ExampleSchema
ExampleSource ==
  [properties |-> ExampleSchema,
   rows |-> [k \in 1..3 |-> Row(SourceRowId(k), TRUE, <<ToString(k)>>, <<>>)]]

FlatSources ==
  {FlatSource(n, full) : n \in 0..MaxRows, full \in BOOLEAN} \cup {ExampleSource}

\* a source database of n rows whose Sub-items relations hold the pairs
\* <<parent, child>> of edges, each relation in ascending order
HierSource(n, edges) ==
  [properties |-> SourceSchema,
   rows |-> [p \in 1..n |->
               Row(SourceRowId(p), TRUE, <<ToString(p)>>,
                   SelectSeq([c \in 1..n |-> SourceRowId(c)],
                             LAMBDA id : <<p, id[2]>> \in edges))]]

\* source databases of at most HierMaxRows rows with at most MaxEdges Sub-items
\* entries in all, every child a later row than its parent
HierSources ==
  UNION {{HierSource(n, edges) :
            edges \in {es \in SUBSET {e \in (1..n) \X (1..n) : e[1] < e[2]} :
                         Cardinality(es) <= MaxEdges}} : n \in 0..HierMaxRows}

\* the smallest number of rows among which more than a batch of relationships
\* can hold, every child a later row than its parent
DeepRows ==
  CHOOSE n \in 1..(EDGE_BATCH_SIZE + 2) :
    /\ (n * (n - 1)) \div 2 > EDGE_BATCH_SIZE
    /\ \A m \in 1..(n - 1) : (m * (m - 1)) \div 2 <= EDGE_BATCH_SIZE

\* a source database each row of which has every later row as a sub-item:
\* its relationships fill a batch of applyRelationships and start a second one
DeepSource == HierSource(DeepRows, {e \in (1..DeepRows) \X (1..DeepRows) : e[1] < e[2]})

\* the title arrays of the rows of TitledSources: the first row has one of two
\* titles, a later row has the first of them or none
TitleSamples(p) == IF p = 1 THEN {<<"a">>, <<"b">>} ELSE {<<>>, <<"a">>}

\* a source database whose p-th row has the title array titles[p] and whose
\* Sub-items relations hold the pairs <<parent, child>> of edges
TitledSource(titles, edges) ==
  [properties |-> SourceSchema,
   rows |-> [p \in 1..Len(titles) |->
               Row(SourceRowId(p), TRUE, titles[p],
                   SelectSeq([c \in 1..Len(titles) |-> SourceRowId(c)],
                             LAMBDA id : <<p, id[2]>> \in edges))]]

\* source databases of HierMaxRows rows some of which share a title or have
\* none, the first row having at most MaxEdges of the later rows as sub-items
TitledSources ==
  {TitledSource(titles, {<<1, c>> : c \in children}) :
     titles \in {t \in [1..HierMaxRows -> {<<>>, <<"a">>, <<"b">>}] :
                   \A p \in 1..HierMaxRows : t[p] \in TitleSamples(p)},
     children \in {cs \in SUBSET (2..HierMaxRows) : Cardinality(cs) <= MaxEdges}}

\* a source database of n rows the first of which has the rows of children as
\* sub-items and is named as parent item by the rows of named
ParentSource(n, children, named) ==
  [properties |-> ParentSchema,
   rows |-> [p \in 1..n |->
               [Row(SourceRowId(p), TRUE, <<ToString(p)>>,
                    IF p = 1
                    THEN SelectSeq([c \in 1..n |-> SourceRowId(c)],
                                   LAMBDA id : id[2] \in children)
                    ELSE <<>>)
                  EXCEPT !.parentItems = IF p \in named THEN <<SourceRowId(1)>> ELSE <<>>]]]

\* source databases of HierMaxRows rows with at most MaxEdges Sub-items
\* entries and at most MaxEdges Parent item entries
ParentSources ==
  {ParentSource(HierMaxRows, children, named) :
     children \in {cs \in SUBSET (2..HierMaxRows) : Cardinality(cs) <= MaxEdges},
     named \in {ns \in SUBSET (2..HierMaxRows) : Cardinality(ns) <= MaxEdges}}

\* a source database of n rows behind a service that drops cursors
LossySource(n) ==
  [properties |-> SourceSchema,
   rows |-> [k \in 1..n |-> Row(SourceRowId(k), TRUE, <<ToString(k)>>, <<>>)],
   dropsCursor |-> TRUE]

LossySources == {LossySource(n) : n \in 0..LossyRows}

\* a source database like ParentSource(n, children, named) with a field named
\* Last Edited By of kind kind, its rows full page objects or partial ones
TrackedSource(n, children, named, kind, full) ==
  [properties |-> Append(ParentSchema, Field("Last Edited By", kind)),
   rows |-> [p \in 1..n |->
               [ParentSource(n, children, named).rows[p] EXCEPT !.hasProperties = full]]]

\* such source databases of HierMaxRows rows, and one of MaxRows rows, which
\* takes two batches
TrackedSources ==
  {TrackedSource(HierMaxRows, children, named, kind, full) :
     children \in {cs \in SUBSET (2..HierMaxRows) : Cardinality(cs) <= MaxEdges},
     named \in {ns \in SUBSET (2..HierMaxRows) : Cardinality(ns) <= MaxEdges},
     kind \in {"last_edited_by", "rich_text"},
     full \in BOOLEAN}
    \cup {TrackedSource(MaxRows, {}, {}, "last_edited_by", TRUE)}

\* source databases without a Sub-items field in their schema
PlainSources ==
  {[properties |-> PlainSchema,
    rows |-> [p \in 1..n |-> Row(SourceRowId(p), TRUE, <<ToString(p)>>, <<>>)]] :
     n \in 0..HierMaxRows}

Sources ==
  FlatSources \cup HierSources \cup PlainSources \cup {DeepSource} \cup TitledSources
    \cup ParentSources \cup LossySources \cup TrackedSources

\* the values of process.env.NODE_ENV; "" stands for an unset variable
NodeEnvs == {"", "development", "production"}

Requests ==
  [method : Methods,
   env : [NOTION_TOKEN : BOOLEAN, SOURCE_DATABASE_ID : IdSamples,
          PARENT_PAGE_ID : IdSamples, NODE_ENV : NodeEnvs]]

\* the requests served in production
ProductionRequests == {r \in Requests : r.env.NODE_ENV = "production"}

GoodRequest ==
  [method |-> "POST",
   env |-> [NOTION_TOKEN |-> TRUE, SOURCE_DATABASE_ID |-> GoodId,
            PARENT_PAGE_ID |-> GoodId, NODE_ENV |-> "production"]]

Invocations == 1..2

\* the locals of an invocation that has not started; remote is the log of the
\* calls it has issued
NoRun ==
  [pc |-> "start", sent |-> <<>>, remote |-> <<>>, newDatabase |-> NoDatabase,
   allPages |-> <<>>, hasMore |-> TRUE, startCursor |-> NoCursor, i |-> 0,
   copiedCount |-> 0, batchPromises |-> <<>>, batches |-> 0]

Init ==
  /\ variant \in {"flat", "hierarchy", "tracking", "none", "pair", "health"}
  /\ runs = [n \in Invocations |-> NoRun]
  /\ req \in Requests
  /\ pc = "start"
  /\ sent = <<>>
  /\ remote = <<>>
  /\ sourceDatabase = NoDatabase
  /\ newDatabase = NoDatabase
  /\ allPages = <<>>
  /\ hasMore = TRUE
  /\ startCursor = NoCursor
  /\ i = 0
  /\ copiedCount = 0
  /\ successfulCopies = 0
  /\ failedCopies = 0
  /\ batchPromises = <<>>
  /\ batches = 0
  /\ pages = 0
  /\ source \in Sources
  /\ written = <<>>
  /\ hier = NoHier
  /\ fn \in {NoCall} \cup Arguments

\* handler, from its entry to the first await
HandlerStart ==
  /\ pc = "start"
  /\ UNCHANGED <<variant, fn, runs, successfulCopies, failedCopies, req, sourceDatabase,
                 newDatabase, allPages, hasMore,
                 startCursor, i, copiedCount, batchPromises, batches, pages, source, written, hier>>
  /\ IF req.method = "OPTIONS"
       THEN Respond(EndResponse) /\ UNCHANGED remote
     ELSE IF req.method # "POST"
       THEN Respond(MethodNotAllowed) /\ UNCHANGED remote
     ELSE IF ~validateEnvironment(req.env)
       THEN Catch(EnvError(MissingVariable(req.env))) /\ UNCHANGED remote
     ELSE IF ~validateNotionId(req.env.SOURCE_DATABASE_ID)
       THEN Catch(IdError("SOURCE_DATABASE_ID")) /\ UNCHANGED remote
     ELSE IF ~validateNotionId(req.env.PARENT_PAGE_ID)
       THEN Catch(IdError("PARENT_PAGE_ID")) /\ UNCHANGED remote
     ELSE /\ remote' = Append(remote, retrieveSchema(req.env.SOURCE_DATABASE_ID))
          /\ pc' = "retrieveSchema"
          /\ UNCHANGED sent

\* notion.databases.retrieve settles; on success the schema is filtered and
\* notion.databases.create is issued
RetrieveSchemaSettle ==
  /\ pc = "retrieveSchema"
  /\ \E k \in Pending(remote, "retrieveSchema") :
       \/ /\ sourceDatabase' = [id |-> remote[k].target, properties |-> source.properties]
          /\ remote' = Append(Settle(remote, k, "fulfilled"),
                              createDatabase(req.env.PARENT_PAGE_ID,
                                             SchemaSent(sourceDatabase'.properties)))
          /\ pc' = "createDatabase"
          /\ UNCHANGED sent
       \/ \E error \in RemoteErrors :
            /\ remote' = Reject(remote, k, error)
            /\ Catch(error)
            /\ UNCHANGED sourceDatabase
  /\ UNCHANGED <<variant, fn, runs, successfulCopies, failedCopies, req, newDatabase,
                 allPages, hasMore, startCursor, i,
                 copiedCount, batchPromises, batches, pages, source, written, hier>>

\* notion.databases.create settles; on success copyDatabaseContent starts and
\* issues its first query
CreateDatabaseSettle ==
  /\ pc = "createDatabase"
  /\ \E k \in Pending(remote, "createDatabase") :
       \/ /\ newDatabase' = [id |-> TargetDatabaseId, properties |-> remote[k].properties]
          /\ remote' = Append(Settle(remote, k, "fulfilled"),
                              queryRows(req.env.SOURCE_DATABASE_ID, NoCursor))
          /\ allPages' = <<>>
          /\ hasMore' = TRUE
          /\ startCursor' = NoCursor
          /\ pages' = 0
          /\ pc' = "queryRows"
          /\ UNCHANGED sent
       \/ \E error \in RemoteErrors :
            /\ remote' = Reject(remote, k, error)
            /\ Catch(error)
            /\ UNCHANGED <<newDatabase, allPages, hasMore, startCursor, pages>>
  /\ UNCHANGED <<variant, fn, runs, successfulCopies, failedCopies, req, sourceDatabase, i,
                 copiedCount, batchPromises, batches,
                 source, written, hier>>

\* copyDatabaseContent once the rows are fetched: the batch loop starts; the
\* handler that counts failures first reads the title of every row for its
\* hierarchyMap, and Object.entries(page.properties) throws a TypeError on a
\* row without properties, which the catch block of handler answers
CopyFetched(rows, log) ==
  IF variant = "tracking" /\ \E n \in 1..Len(rows) : ~rows[n].hasProperties
  THEN /\ remote' = log
       /\ Catch(<<"Cannot convert undefined or null to object">>)
       /\ UNCHANGED <<i, copiedCount, batchPromises, batches>>
  ELSE BatchLoop(rows, 0, 0, log)

\* a faulty variant: the loop catches the error and breaks, and the rows
\* fetched so far are copied
QueryRejectedBreak(log, error) ==
  /\ BatchLoop(allPages, 0, 0, log)
  /\ UNCHANGED <<allPages, hasMore, startCursor, pages>>

\* notion.databases.query rejects inside copyDatabaseContent: nothing catches
\* the error before the catch block of handler
QueryRejected(log, error) ==
  /\ remote' = log
  /\ Catch(error)
  /\ UNCHANGED <<allPages, hasMore, startCursor, i, copiedCount, batchPromises,
                 batches, pages>>

\* notion.databases.query settles inside the while loop of copyDatabaseContent;
\* the loop goes round, or ends and the batch loop starts
QueryRowsSettle ==
  /\ pc = "queryRows"
  /\ UNCHANGED <<variant, fn, runs, successfulCopies, failedCopies, req, sourceDatabase,
                 newDatabase, source, written, hier>>
  /\ \E k \in Pending(remote, "queryRows") :
       \/ \E n \in PageSizes(DatabaseRows(remote[k].target), OffsetOf(remote[k].cursor), PageCap) :
          \E response \in Answers(DatabaseRows(remote[k].target), remote[k].cursor, n) :
            LET log == Settle(remote, k, "fulfilled")
            IN  /\ pages' = pages + 1
                /\ allPages' = Accumulate(allPages, response.results)
                /\ hasMore' = response.has_more
                /\ startCursor' = NextCursor(response)
                /\ IF hasMore'
                     THEN /\ remote' = Append(log, queryRows(req.env.SOURCE_DATABASE_ID,
                                                             startCursor'))
                          /\ UNCHANGED <<pc, sent, i, copiedCount, batchPromises, batches>>
                     ELSE CopyFetched(allPages', log)
       \/ \E error \in RemoteErrors : QueryRejected(Reject(remote, k, error), error)

\* one notion.pages.create settles
CreateRowSettle ==
  /\ \E k \in Pending(remote, "createRow"), status \in {"fulfilled", "rejected"} :
       remote' = Settle(remote, k, status)
  /\ UNCHANGED <<variant, fn, runs, successfulCopies, failedCopies, req, pc, sent,
                 sourceDatabase, newDatabase, allPages,
                 hasMore, startCursor, i, copiedCount, batchPromises, batches, pages,
                 source, written, hier>>

\* Promise.allSettled resolves: the results are counted and the loop goes on
BatchSettled ==
  /\ pc = "batch"
  /\ AllSettled(remote, batchPromises)
  /\ BatchLoop(allPages, NextIndex(i),
               copiedCount + CountFulfilled(remote, batchPromises), remote)
  /\ UNCHANGED <<variant, fn, runs, successfulCopies, failedCopies, req, sourceDatabase,
                 newDatabase, allPages, hasMore,
                 startCursor, pages, source, written, hier>>

\* a faulty variant: a failed creation is not counted as a failure
CountRejectedNone(log, promises) == 0

\* results.forEach of the handler that counts failures: the results whose
\* creation failed (the callback caught the error and returned success: false)
CountRejected(log, promises) ==
  Cardinality({k \in Range(promises) : log[k].status = "rejected"})

\* the batch loop of the handler that counts failures from index from on, count
\* results having been counted: the next batch is issued and awaited, or the
\* loop is over and copyDatabaseContent returns successfulCopies
TrackedLoop(rows, from, count, log) ==
  IF from < Len(rows)
  THEN BatchLoop(rows, from, count, log)
  ELSE /\ remote' = log
       /\ Respond(Success(successfulCopies'))
       /\ batchPromises' = <<>>
       /\ i' = from
       /\ copiedCount' = count
       /\ UNCHANGED batches

\* Promise.allSettled resolves in the handler that counts failures: every
\* result adds one to copiedCount and one to successfulCopies or failedCopies,
\* and the loop goes on
TrackedBatchSettled ==
  /\ pc = "batch"
  /\ AllSettled(remote, batchPromises)
  /\ successfulCopies' = successfulCopies + CountFulfilled(remote, batchPromises)
  /\ failedCopies' = failedCopies + CountRejected(remote, batchPromises)
  /\ TrackedLoop(allPages, NextIndex(i), copiedCount + Len(batchPromises), remote)
  /\ UNCHANGED <<variant, fn, runs, req, sourceDatabase, newDatabase, allPages, hasMore,
                 startCursor, pages, source, written, hier>>

\* a faulty variant: the slice has no end, so the batch is all the relationships left
EdgeBatchOfRest(relationships, from) == Slice(relationships, from, Len(relationships))

\* the relationships of the batch starting at index from
EdgeBatchOf(relationships, from) == Slice(relationships, from, from + EDGE_BATCH_SIZE)

\* a faulty variant: only the parent is looked up
MappedParent(mapping, relationship) == relationship.parentId \in DOMAIN mapping

\* if (targetParentId && targetChildId)
Mapped(mapping, relationship) ==
  relationship.parentId \in DOMAIN mapping /\ relationship.childId \in DOMAIN mapping

\* Promise.allSettled(batchPromises) of applyRelationships has resolved: every
\* async callback of the batch has run to its end
EdgesSettled(promises) == \A e \in 1..Len(promises) : promises[e] = 0

\* a faulty variant: the failures of a batch are thrown on once the batch has
\* settled (no try/catch in the callbacks, Promise.all), up to the catch block
\* of handler
EdgeLoopAborting(relationships, mapping, from, log, frame) ==
  IF \E k \in 1..Len(log) :
       log[k].op \in {"retrieveRow", "updateRow"} /\ log[k].status = "rejected"
  THEN /\ remote' = log
       /\ hier' = [frame EXCEPT !.j = from, !.edgePromises = <<>>]
       /\ Catch(<<"other">>)
  ELSE IF from < Len(relationships)
  THEN LET batch == Slice(relationships, from, from + EDGE_BATCH_SIZE)
           mapped == SelectSeq([e \in 1..Len(batch) |-> e],
                               LAMBDA e : /\ batch[e].parentId \in DOMAIN mapping
                                          /\ batch[e].childId \in DOMAIN mapping)
           calls == [n \in 1..Len(mapped) |->
                       retrieveRow(mapping[batch[mapped[n]].parentId],
                                   from + mapped[n], (from \div EDGE_BATCH_SIZE) + 1)]
           position(e) == Cardinality({n \in 1..Len(mapped) : mapped[n] <= e})
       IN  /\ remote' = log \o calls
           /\ hier' = [frame EXCEPT
                         !.j = from,
                         !.edgePromises =
                            [e \in 1..Len(batch) |->
                               IF e \in Range(mapped) THEN Len(log) + position(e) ELSE 0]]
           /\ pc' = "applyRelationships"
           /\ UNCHANGED sent
  ELSE /\ remote' = log
       /\ hier' = [frame EXCEPT !.j = from, !.edgePromises = <<>>]
       /\ Respond(Success(copiedCount))

\* the loop of applyRelationships from index from on: every callback of the
\* next batch runs up to its first await (a mapped relationship issues its
\* retrieveRow, an unmapped one is over), or the loop is over and the handler
\* answers
EdgeLoop(relationships, mapping, from, log, frame) ==
  IF from < Len(relationships)
  THEN LET batch == EdgeBatchOf(relationships, from)
           mapped == SelectSeq([e \in 1..Len(batch) |-> e],
                               LAMBDA e : Mapped(mapping, batch[e]))
           calls == [n \in 1..Len(mapped) |->
                       retrieveRow(mapping[batch[mapped[n]].parentId],
                                   from + mapped[n], (from \div EDGE_BATCH_SIZE) + 1)]
           position(e) == Cardinality({n \in 1..Len(mapped) : mapped[n] <= e})
       IN  /\ remote' = log \o calls
           /\ hier' = [frame EXCEPT
                         !.j = from,
                         !.edgePromises =
                            [e \in 1..Len(batch) |->
                               IF Mapped(mapping, batch[e]) THEN Len(log) + position(e)
                               ELSE 0]]
           /\ pc' = "applyRelationships"
           /\ UNCHANGED sent
  ELSE /\ remote' = log
       /\ hier' = [frame EXCEPT !.j = from, !.edgePromises = <<>>]
       /\ Respond(Success(copiedCount))

\* notion.databases.update settles; on success restoreHierarchy starts and
\* getAllPagesFromDatabase(sourceDatabaseId) issues its first query
UpdateSchemaSettle ==
  /\ pc = "updateSchema"
  /\ \E k \in Pending(remote, "updateSchema") :
       \/ /\ remote' = Append(Settle(remote, k, "fulfilled"),
                              queryRows(req.env.SOURCE_DATABASE_ID, NoCursor))
          /\ hier' = [NoHier EXCEPT !.fetching = "source"]
          /\ pages' = 0
          /\ pc' = "getAllPages"
          /\ UNCHANGED sent
       \/ \E error \in RemoteErrors :
            /\ remote' = Reject(remote, k, error)
            /\ Catch(error)
            /\ UNCHANGED <<hier, pages>>
  /\ UNCHANGED <<variant, fn, runs, successfulCopies, failedCopies, req, sourceDatabase,
                 newDatabase, allPages, hasMore,
                 startCursor, i, copiedCount, batchPromises, batches, source, written>>

\* notion.databases.query settles inside getAllPagesFromDatabase; when the last
\* page is in, restoreHierarchy goes on: after the source rows it fetches the
\* target rows, after the target rows it builds the mapping and the
\* relationships and applies them
GetAllPagesSettle ==
  /\ pc = "getAllPages"
  /\ UNCHANGED <<variant, fn, runs, successfulCopies, failedCopies, req, sourceDatabase,
                 newDatabase, allPages, hasMore,
                 startCursor, i, copiedCount, batchPromises, batches, source, written>>
  /\ \E k \in Pending(remote, "queryRows") :
       \/ \E n \in PageSizes(DatabaseRows(remote[k].target), OffsetOf(remote[k].cursor), PageCap) :
          \E response \in Answers(DatabaseRows(remote[k].target), remote[k].cursor, n) :
            LET log == Settle(remote, k, "fulfilled")
                fetched == Accumulate(hier.allPages, response.results)
                frame == [hier EXCEPT !.allPages = fetched,
                                      !.hasMore = response.has_more,
                                      !.startCursor = NextCursor(response)]
            IN  IF response.has_more
                THEN /\ remote' = Append(log, queryRows(remote[k].target,
                                                        NextCursor(response)))
                     /\ hier' = frame
                     /\ pages' = pages + 1
                     /\ UNCHANGED <<pc, sent>>
                ELSE IF hier.fetching = "source"
                THEN /\ remote' = Append(log, queryRows(newDatabase.id, NoCursor))
                     /\ hier' = [frame EXCEPT !.sourcePages = fetched,
                                              !.fetching = "target",
                                              !.allPages = <<>>,
                                              !.hasMore = TRUE,
                                              !.startCursor = NoCursor]
                     /\ pages' = 0
                     /\ UNCHANGED <<pc, sent>>
                ELSE LET pageMapping == createPageMapping(hier.sourcePages, fetched)
                         relationships == findHierarchicalRelationships(hier.sourcePages)
                     IN  /\ pages' = pages + 1
                         /\ EdgeLoop(relationships, pageMapping, 0, log,
                                     [frame EXCEPT !.targetPages = fetched,
                                                   !.pageMapping = pageMapping,
                                                   !.relationships = relationships])
       \/ \E error \in RemoteErrors :
            /\ remote' = Reject(remote, k, error)
            /\ Catch(error)
            /\ UNCHANGED <<hier, pages>>

\* the relationship the callback at position e of the current batch works on
EdgeAt(e) == hier.relationships[hier.j + e]

\* a faulty variant: a child the list holds already is not added again
AddChildOnce(currentSubItems, targetChildId) ==
  IF targetChildId \in Range(currentSubItems) THEN currentSubItems
  ELSE Append(currentSubItems, targetChildId)

\* const updatedSubItems = [...currentSubItems, { id: targetChildId }]
AddChild(currentSubItems, targetChildId) == Append(currentSubItems, targetChildId)

\* notion.pages.retrieve of one relationship settles: on success the callback
\* appends the child to the list it read and issues notion.pages.update; on
\* failure its catch logs and the callback is over
RetrieveRowSettle ==
  /\ pc = "applyRelationships"
  /\ \E e \in 1..Len(hier.edgePromises) :
       LET k == hier.edgePromises[e] IN
       /\ k # 0
       /\ remote[k].op = "retrieveRow"
       /\ remote[k].status = "pending"
       /\ \/ LET currentSubItems == Relation(written, remote[k].target)
                  updatedSubItems ==
                    AddChild(currentSubItems, hier.pageMapping[EdgeAt(e).childId])
                  log == Settle(remote, k, "fulfilled")
              IN  /\ remote' = Append(log, updateRow(remote[k].target, remote[k].row,
                                                     remote[k].batch, updatedSubItems))
                  /\ hier' = [hier EXCEPT !.edgePromises[e] = Len(log) + 1]
          \/ /\ remote' = Settle(remote, k, "rejected")
             /\ hier' = [hier EXCEPT !.edgePromises[e] = 0]
  /\ UNCHANGED <<variant, fn, runs, successfulCopies, failedCopies, req, pc, sent,
                 sourceDatabase, newDatabase, allPages,
                 hasMore, startCursor, i, copiedCount, batchPromises, batches, pages,
                 source, written>>

\* notion.pages.update of one relationship settles: on success the service has
\* replaced the parent's Sub-items relation by the list sent; either way the
\* callback is over
UpdateRowSettle ==
  /\ pc = "applyRelationships"
  /\ \E e \in 1..Len(hier.edgePromises) :
       LET k == hier.edgePromises[e] IN
       /\ k # 0
       /\ remote[k].op = "updateRow"
       /\ remote[k].status = "pending"
       /\ \/ /\ remote' = Settle(remote, k, "fulfilled")
             /\ written' = [id \in DOMAIN written \cup {remote[k].target} |->
                              IF id = remote[k].target THEN remote[k].properties
                              ELSE written[id]]
          \/ /\ remote' = Settle(remote, k, "rejected")
             /\ UNCHANGED written
       /\ hier' = [hier EXCEPT !.edgePromises[e] = 0]
  /\ UNCHANGED <<variant, fn, runs, successfulCopies, failedCopies, req, pc, sent,
                 sourceDatabase, newDatabase, allPages,
                 hasMore, startCursor, i, copiedCount, batchPromises, batches, pages,
                 source>>

\* Promise.allSettled of applyRelationships resolves: the loop goes on
EdgeBatchSettled ==
  /\ pc = "applyRelationships"
  /\ EdgesSettled(hier.edgePromises)
  /\ EdgeLoop(hier.relationships, hier.pageMapping, hier.j + EDGE_BATCH_SIZE, remote, hier)
  /\ UNCHANGED <<variant, fn, runs, successfulCopies, failedCopies, req, sourceDatabase,
                 newDatabase, allPages, hasMore,
                 startCursor, i, copiedCount, batchPromises, batches, pages, source,
                 written>>

NextFlat ==
  \/ HandlerStart
  \/ RetrieveSchemaSettle
  \/ CreateDatabaseSettle
  \/ QueryRowsSettle
  \/ CreateRowSettle
  \/ BatchSettled

NextTracking ==
  \/ HandlerStart
  \/ RetrieveSchemaSettle
  \/ CreateDatabaseSettle
  \/ QueryRowsSettle
  \/ CreateRowSettle
  \/ TrackedBatchSettled

NextHier ==
  \/ HandlerStart
  \/ RetrieveSchemaSettle
  \/ CreateDatabaseSettle
  \/ QueryRowsSettle
  \/ CreateRowSettle
  \/ BatchSettled
  \/ UpdateSchemaSettle
  \/ GetAllPagesSettle
  \/ RetrieveRowSettle
  \/ UpdateRowSettle
  \/ EdgeBatchSettled

\* a pure function is called on an argument and returns or throws; it touches
\* nothing else
Return(op, returned, threw) ==
  /\ fn' = [fn EXCEPT !.op = op, !.returned = returned, !.threw = threw]
  /\ UNCHANGED <<variant, successfulCopies, failedCopies, req, pc, sent, remote,
                 sourceDatabase, newDatabase, allPages,
                 hasMore, startCursor, i, copiedCount, batchPromises, batches, pages,
                 source, written, hier, runs>>

\* filterDatabaseSchemaProperties of api/duplicate.ts
CallFilterDatabaseSchemaProperties ==
  /\ fn.op = "none" /\ fn.of = "schema"
  /\ Return("filterDatabaseSchemaProperties",
            filterDatabaseSchemaProperties(fn.schema), FALSE)

CallFilterDatabaseSchemaPropertiesDoneFirst ==
  /\ fn.op = "none" /\ fn.of = "schema"
  /\ Return("filterDatabaseSchemaPropertiesDoneFirst",
            filterDatabaseSchemaPropertiesDoneFirst(fn.schema), FALSE)

CallFilterDatabaseSchemaPropertiesPrefixed ==
  /\ fn.op = "none" /\ fn.of = "schema"
  /\ Return("filterDatabaseSchemaPropertiesPrefixed",
            filterDatabaseSchemaPropertiesPrefixed(fn.schema), FALSE)

CallMoveDoneToFirst ==
  /\ fn.op = "none" /\ fn.of = "select"
  /\ Return("moveDoneToFirst", <<moveDoneToFirst(fn.schema[1])>>, FALSE)

\* filterPropertiesForCreation of api/duplicate.ts
CallFilterPropertiesForCreation ==
  /\ fn.op = "none" /\ fn.of = "properties"
  /\ Return("filterPropertiesForCreation", filterPropertiesForCreation(fn.properties), FALSE)

\* validateNotionId of api/duplicate.ts
CallValidateNotionId ==
  /\ fn.op = "none" /\ fn.of = "id"
  /\ Return("validateNotionId", <<>>, ~validateNotionId(fn.id))

NextPure ==
  \/ CallFilterDatabaseSchemaProperties
  \/ CallFilterDatabaseSchemaPropertiesDoneFirst
  \/ CallFilterDatabaseSchemaPropertiesPrefixed
  \/ CallMoveDoneToFirst
  \/ CallFilterPropertiesForCreation
  \/ CallValidateNotionId

----------------------------------------------------------------------------
(* Two invocations of the flat handler in one process.  Each has its own    *)
(* locals; the module holds nothing but the client, which no call changes. *)

\* the identifiers the service gives the databases it creates, in creation order
DatabaseIds == <<TargetDatabaseId, Rep("e", 32)>>

\* the databases created so far, whatever the invocation
Created(rs) == {n \in Invocations : rs[n].newDatabase # NoDatabase}

RunRespond(r, response) == [r EXCEPT !.sent = Append(r.sent, response), !.pc = "done"]

RunSuccess(r, count) ==
  [status |-> 200, kind |-> "success", headers |-> CorsHeaders,
   newDatabaseId |-> r.newDatabase.id, copiedPagesCount |-> count]

\* a faulty variant: copiedCount is a variable of the module, which every
\* invocation adds to
ModuleCount(rs, n) == rs[1].copiedCount + rs[2].copiedCount

\* let copiedCount of copyDatabaseContent: a local of the invocation
OwnCount(rs, n) == rs[n].copiedCount

\* the batch loop of invocation r from index from on
RunBatchLoop(r, from, count) ==
  IF from < Len(r.allPages)
  THEN LET calls == BatchCalls(r.allPages, from, r.batches + 1, r.newDatabase.id)
       IN  [r EXCEPT !.remote = r.remote \o calls,
                     !.batchPromises = [k \in 1..Len(calls) |-> Len(r.remote) + k],
                     !.batches = r.batches + 1,
                     !.i = from,
                     !.copiedCount = count,
                     !.pc = "batch"]
  ELSE RunRespond([r EXCEPT !.batchPromises = <<>>, !.i = from, !.copiedCount = count],
                  RunSuccess(r, count))

\* what the actions of the two invocations leave alone
single == <<variant, req, pc, sent, remote, sourceDatabase, newDatabase, allPages,
            hasMore, startCursor, i, copiedCount, successfulCopies, failedCopies,
            batchPromises, batches, pages, source, written, hier, fn>>

\* handler of invocation n, from its entry to the first await
RunStart(n) ==
  /\ runs[n].pc = "start"
  /\ UNCHANGED single
  /\ LET development == req.env.NODE_ENV = "development" IN
       runs' = [runs EXCEPT ![n] =
         IF req.method = "OPTIONS" THEN RunRespond(runs[n], EndResponse)
         ELSE IF req.method # "POST" THEN RunRespond(runs[n], MethodNotAllowed)
         ELSE IF ~validateEnvironment(req.env)
           THEN RunRespond(runs[n], ErrorResponse(EnvError(MissingVariable(req.env)),
                                                  development))
         ELSE IF ~validateNotionId(req.env.SOURCE_DATABASE_ID)
           THEN RunRespond(runs[n], ErrorResponse(IdError("SOURCE_DATABASE_ID"), development))
         ELSE IF ~validateNotionId(req.env.PARENT_PAGE_ID)
           THEN RunRespond(runs[n], ErrorResponse(IdError("PARENT_PAGE_ID"), development))
         ELSE [runs[n] EXCEPT !.remote = <<retrieveSchema(req.env.SOURCE_DATABASE_ID)>>,
                              !.pc = "retrieveSchema"]]

\* a remote call of invocation n rejects where nothing catches the error before
\* the catch block of handler
RunRejected(n, k) ==
  \E error \in RemoteErrors :
    runs' = [runs EXCEPT ![n] =
      RunRespond([runs[n] EXCEPT !.remote = Reject(runs[n].remote, k, error)],
                 ErrorResponse(error, req.env.NODE_ENV = "development"))]

RunRetrieveSchemaSettle(n) ==
  /\ runs[n].pc = "retrieveSchema"
  /\ UNCHANGED single
  /\ \E k \in Pending(runs[n].remote, "retrieveSchema") :
       \/ runs' = [runs EXCEPT ![n] =
            [runs[n] EXCEPT
               !.remote = Append(Settle(runs[n].remote, k, "fulfilled"),
                                 createDatabase(req.env.PARENT_PAGE_ID,
                                   filterDatabaseSchemaProperties(source.properties))),
               !.pc = "createDatabase"]]
       \/ RunRejected(n, k)

RunCreateDatabaseSettle(n) ==
  /\ runs[n].pc = "createDatabase"
  /\ UNCHANGED single
  /\ \E k \in Pending(runs[n].remote, "createDatabase") :
       \/ runs' = [runs EXCEPT ![n] =
            [runs[n] EXCEPT
               !.newDatabase = [id |-> DatabaseIds[Cardinality(Created(runs)) + 1],
                                properties |-> runs[n].remote[k].properties],
               !.remote = Append(Settle(runs[n].remote, k, "fulfilled"),
                                 queryRows(req.env.SOURCE_DATABASE_ID, NoCursor)),
               !.allPages = <<>>,
               !.hasMore = TRUE,
               !.startCursor = NoCursor,
               !.pc = "queryRows"]]
       \/ RunRejected(n, k)

RunQueryRowsSettle(n) ==
  /\ runs[n].pc = "queryRows"
  /\ UNCHANGED single
  /\ \E k \in Pending(runs[n].remote, "queryRows") :
       \/ \E size \in PageSizes(source.rows, OffsetOf(runs[n].remote[k].cursor), PageCap) :
            LET response == QueryResponse(source.rows, runs[n].remote[k].cursor, size)
                log == Settle(runs[n].remote, k, "fulfilled")
                r == [runs[n] EXCEPT
                        !.allPages = Accumulate(runs[n].allPages, response.results),
                        !.hasMore = response.has_more,
                        !.startCursor = NextCursor(response)]
            IN  runs' = [runs EXCEPT ![n] =
                  IF response.has_more
                  THEN [r EXCEPT !.remote = Append(log, queryRows(req.env.SOURCE_DATABASE_ID,
                                                                  NextCursor(response)))]
                  ELSE RunBatchLoop([r EXCEPT !.remote = log], 0, 0)]
       \/ RunRejected(n, k)

RunCreateRowSettle(n) ==
  /\ UNCHANGED single
  /\ \E k \in Pending(runs[n].remote, "createRow"), status \in {"fulfilled", "rejected"} :
       runs' = [runs EXCEPT ![n].remote = Settle(runs[n].remote, k, status)]

RunBatchSettled(n) ==
  /\ runs[n].pc = "batch"
  /\ AllSettled(runs[n].remote, runs[n].batchPromises)
  /\ UNCHANGED single
  /\ runs' = [runs EXCEPT ![n] =
       RunBatchLoop(runs[n], NextIndex(runs[n].i),
                    OwnCount(runs, n)
                      + CountFulfilled(runs[n].remote, runs[n].batchPromises))]

NextPair ==
  \E n \in Invocations :
    \/ RunStart(n)
    \/ RunRetrieveSchemaSettle(n)
    \/ RunCreateDatabaseSettle(n)
    \/ RunQueryRowsSettle(n)
    \/ RunCreateRowSettle(n)
    \/ RunBatchSettled(n)

\* two POST requests against a source of full rows, or of MaxRows partial ones
InitPair ==
  /\ variant = "pair" /\ fn = NoCall /\ req = GoodRequest
  /\ source \in {FlatSource(n, TRUE) : n \in 0..HierMaxRows}
                  \cup {FlatSource(MaxRows, FALSE)}
  /\ Init

SpecPair == InitPair /\ [][NextPair]_vars

----------------------------------------------------------------------------
(* The health handler of api/health.ts *)

\* healthStatus, as sent with status code; its timestamp and uptime, readings
\* of the clock, are left out
HealthResponse(code, health, nodeEnv) ==
  [status |-> code, kind |-> "health", headers |-> <<>>, health |-> health,
   version |-> "2.0.0", environment |-> IF nodeEnv = "" THEN "production" ELSE nodeEnv,
   hasToken |-> req.env.NOTION_TOKEN]

\* handler of api/health.ts: it awaits nothing
HealthHandler ==
  /\ pc = "start"
  /\ UNCHANGED <<variant, fn, runs, successfulCopies, failedCopies, req, remote,
                 sourceDatabase, newDatabase, allPages,
                 hasMore, startCursor, i, copiedCount, batchPromises, batches, pages,
                 source, written, hier>>
  /\ IF req.method # "GET"
       THEN Respond([status |-> 405, kind |-> "error", headers |-> <<>>,
                     error |-> "Method not allowed"])
     ELSE IF ~req.env.NOTION_TOKEN
            THEN Respond(HealthResponse(503, "unhealthy", req.env.NODE_ENV))
            ELSE Respond(HealthResponse(200, "healthy", req.env.NODE_ENV))

NextHealth == HealthHandler

InitHealth ==
  /\ variant = "health" /\ fn = NoCall /\ source = FlatSource(0, TRUE)
  /\ Init

SpecHealth == InitHealth /\ [][NextHealth]_vars

InitFlat ==
  /\ variant = "flat" /\ fn = NoCall /\ source \in FlatSources
  /\ req \in ProductionRequests
  /\ Init

InitHier ==
  /\ variant = "hierarchy" /\ fn = NoCall /\ req = GoodRequest
  /\ source \in HierSources \cup PlainSources
  /\ Init

InitPure ==
  /\ variant = "none" /\ req = GoodRequest /\ source = FlatSource(0, TRUE)
  /\ fn \in Arguments
  /\ Init

\* the flat handler on the source databases of a single page
InitFlatSmall ==
  /\ variant = "flat" /\ fn = NoCall
  /\ source \in {FlatSource(n, TRUE) : n \in 0..MaxPageRows}
  /\ Init

\* the flat handler on the source databases of a single page and on those of
\* MaxRows rows, which take several pages and two batches
InitFlatFair ==
  /\ variant = "flat" /\ fn = NoCall
  /\ source \in {FlatSource(n, full) : n \in (0..MaxPageRows) \cup {MaxRows},
                                        full \in BOOLEAN}
  /\ req \in ProductionRequests
  /\ Init

\* the flat handler against a service that drops cursors
InitFlatLossy ==
  /\ variant = "flat" /\ fn = NoCall /\ req = GoodRequest
  /\ source \in LossySources
  /\ Init

\* the handler that counts failures
InitTracking ==
  /\ variant = "tracking" /\ fn = NoCall /\ req = GoodRequest
  /\ source \in TrackedSources
  /\ Init

SpecFlat == InitFlat /\ [][NextFlat]_vars

SpecTracking == InitTracking /\ [][NextTracking]_vars

SpecFlatLossy == InitFlatLossy /\ [][NextFlat]_vars

SpecFlatSmall == InitFlatSmall /\ [][NextFlat]_vars

\* every remote call outstanding settles in the end, and a continuation that
\* can run does: the invocation does not stop while a step of it is possible
SpecFlatFair == InitFlatFair /\ [][NextFlat]_vars /\ WF_vars(NextFlat)

InitHierDeep ==
  /\ variant = "hierarchy" /\ fn = NoCall /\ req = GoodRequest
  /\ source = DeepSource
  /\ Init

\* the hierarchy handler on source databases whose titles repeat or are
\* missing, and on those whose rows name their parents
InitHierTitled ==
  /\ variant = "hierarchy" /\ fn = NoCall /\ req = GoodRequest
  /\ source \in TitledSources \cup ParentSources
  /\ Init

SpecHier == InitHier /\ [][NextHier]_vars

SpecHierTitled == InitHierTitled /\ [][NextHier]_vars

SpecHierDeep == InitHierDeep /\ [][NextHier]_vars

SpecPure == InitPure /\ [][NextPure]_vars

----------------------------------------------------------------------------
(* Properties of the batch replicator and the paginator (SpecFlat) *)

\* copyDatabaseContent has returned: the last page is in and no batch is awaited
CopyReturned == ~hasMore /\ pc # "batch"

\* the createRow calls issued for the row of identifier id
CallsFor(id) == {k \in Calls(remote, "createRow") : remote[k].row = id}

Rejected(op) == {k \in Calls(remote, op) : remote[k].status = "rejected"}

Fulfilled(op) == {k \in Calls(remote, op) : remote[k].status = "fulfilled"}

\* the rows fetched that carry properties
FetchedWithProperties == {r \in 1..Len(allPages) : allPages[r].hasProperties}

\* the batch the row at position r (1-based) of allPages belongs to
BatchNumber(r) == ((r - 1) \div BATCH_SIZE) + 1

C2_CountIsRowsMinusFailures ==
  CopyReturned =>
    sent = <<Success(Len(allPages) - Cardinality(Rejected("createRow")))>>

\* C2 amended: once copyDatabaseContent has returned, the handler has answered
\* 200 with the new database and a count of the creations issued (one per
\* fetched row that carries properties) minus the failed ones, and nothing else
C2_CountIsCallsMinusFailures ==
  CopyReturned =>
    /\ Len(sent) = 1
    /\ sent[1].status = 200
    /\ sent[1].newDatabaseId = TargetDatabaseId
    /\ sent[1].copiedPagesCount =
         Cardinality(FetchedWithProperties) - Cardinality(Rejected("createRow"))
    /\ sent[1].copiedPagesCount = copiedCount

\* C2 witness: the handler answered 200 although every creation failed
C2_Witness ==
  /\ CopyReturned
  /\ Len(allPages) = BATCH_SIZE + 1
  /\ Cardinality(Rejected("createRow")) = BATCH_SIZE + 1
  /\ sent = <<Success(0)>>

\* C3: while a createRow call is outstanding, no createRow call of a later
\* batch has been issued
C3_BatchesSequential ==
  \A k \in Pending(remote, "createRow") :
    \A m \in Calls(remote, "createRow") : remote[m].batch <= remote[k].batch

\* C3 witness: the second batch is outstanding after a first batch with a
\* fulfilled and a rejected creation
C3_Witness ==
  /\ \E k \in Pending(remote, "createRow") : remote[k].batch = 2
  /\ \E k \in Rejected("createRow") : remote[k].batch = 1
  /\ \E k \in Fulfilled("createRow") : remote[k].batch = 1

\* C4: at most BATCH_SIZE createRow calls are outstanding
C4_AtMostBatchSizeOutstanding ==
  Cardinality(Pending(remote, "createRow")) <= BATCH_SIZE

\* C4 witness: a full batch is outstanding and more rows are waiting
C4_Witness ==
  /\ Cardinality(Pending(remote, "createRow")) = BATCH_SIZE
  /\ Len(allPages) > BATCH_SIZE

\* the number of pages the service needs for n rows
PagesOf(n) == IF n = 0 THEN 1 ELSE CeilDiv(n, PageCap)

\* C5: the rows fetched are always the first rows of the source, in order; once
\* the page with has_more false is in, they are all the rows of the source, and
\* one query was issued per page, the first without a cursor
C5_PaginationConcatenates ==
  /\ Len(allPages) <= Len(source.rows)
  /\ allPages = SubSeq(source.rows, 1, Len(allPages))
  /\ ~hasMore =>
       /\ allPages = source.rows
       /\ pages = PagesOf(Len(source.rows))
       /\ Cardinality(Calls(remote, "queryRows")) = pages
       /\ \A k \in Calls(remote, "queryRows") :
            (\A m \in Calls(remote, "queryRows") : k <= m) => remote[k].cursor = NoCursor

\* C5 witness: three pages were fetched
C5_Witness == ~hasMore /\ pages = 3 /\ Len(allPages) = MaxRows

----------------------------------------------------------------------------
(* Properties of the hierarchy phase and of failures (SpecHier, SpecFlat) *)

\* the callbacks of the current batch of applyRelationships that have read
\* their parent's Sub-items and have not had their write settled
BetweenReadAndWrite ==
  {e \in 1..Len(hier.edgePromises) :
     /\ hier.edgePromises[e] # 0
     /\ remote[hier.edgePromises[e]].op = "updateRow"
     /\ remote[hier.edgePromises[e]].status = "pending"}

\* C6: no two relationships are between their read and their write of the same
\* parent row at the same time
C6_NoOverlappingUpdates ==
  \A e1, e2 \in BetweenReadAndWrite :
    remote[hier.edgePromises[e1]].target = remote[hier.edgePromises[e2]].target => e1 = e2

\* the invocation has answered with a success
Succeeded == pc = "done" /\ Len(sent) = 1 /\ sent[1].kind = "success"

\* C7: when the hierarchy phase has completed and no retrieveRow or updateRow
\* call failed, the Sub-items relation of the target parent of every
\* relationship with both ends mapped holds the target child
C7_EveryEdgeApplied ==
  (Succeeded /\ Rejected("retrieveRow") = {} /\ Rejected("updateRow") = {}) =>
    \A n \in 1..Len(hier.relationships) :
      Mapped(hier.pageMapping, hier.relationships[n]) =>
        hier.pageMapping[hier.relationships[n].childId]
          \in Range(Relation(written, hier.pageMapping[hier.relationships[n].parentId]))

\* the invocation has answered with an error, and with nothing else
Failed == pc = "done" /\ Len(sent) = 1 /\ sent[1].kind = "error"

\* C8: a failed retrieveSchema leaves no createDatabase call, a failed
\* createDatabase leaves no queryRows and no createRow call, and either ends
\* the invocation with an error response and no success response
C8_SchemaFailuresFatal ==
  /\ Rejected("retrieveSchema") # {} =>
       /\ Calls(remote, "createDatabase") = {}
       /\ Failed
  /\ Rejected("createDatabase") # {} =>
       /\ Calls(remote, "queryRows") = {}
       /\ Calls(remote, "createRow") = {}
       /\ Failed

\* C8 witness: createDatabase failed after a successful retrieveSchema
C8_Witness ==
  /\ Rejected("createDatabase") # {}
  /\ Fulfilled("retrieveSchema") # {}
  /\ sent = <<ErrorResponse(<<"Could not find">>, FALSE)>>

\* C9: a failed queryRows call is the last call of the invocation (no further
\* query, no retry, no createRow after it), the invocation ends with an error
\* response, and the rows of the failed pagination are never used: no createRow
\* at all when copyDatabaseContent was paginating, no relationship otherwise
C9_QueryFailureAborts ==
  \A k \in Rejected("queryRows") :
    /\ Len(remote) = k
    /\ Failed
    /\ Cardinality(Rejected("queryRows")) = 1
    /\ hasMore => Calls(remote, "createRow") = {} /\ batches = 0
    /\ ~hasMore => /\ hier.relationships = <<>>
                   /\ hier.targetPages = <<>>
                   /\ Calls(remote, "retrieveRow") = {}

\* C9 witness: the query for the second page of the source failed in
\* copyDatabaseContent
C9_Witness ==
  /\ Failed
  /\ hasMore
  /\ pages = 1
  /\ Len(allPages) = HierPageRows
  /\ \E k \in Rejected("queryRows") : remote[k].cursor # NoCursor

HierarchyOps == {"updateSchema", "retrieveRow", "updateRow"}

\* C10: when a call of the hierarchy phase has been issued, every row has been
\* through the batch loop and every createRow call was issued before it and
\* has settled
C10_HierarchyAfterReplication ==
  \A k \in 1..Len(remote) :
    remote[k].op \in HierarchyOps =>
      /\ CopyReturned
      /\ Pending(remote, "createRow") = {}
      /\ \A m \in Calls(remote, "createRow") : m < k
      /\ Cardinality(Calls(remote, "createRow")) = Cardinality(FetchedWithProperties)

\* C10 witness: a relationship is being written after a replication in which a
\* creation failed
C10_Witness ==
  /\ Pending(remote, "updateRow") # {}
  /\ Rejected("createRow") # {}
  /\ Fulfilled("createRow") # {}

\* the schema has the relation field findHierarchicalRelationships looks for
HasSubItems(properties) ==
  \E k \in 1..Len(properties) :
    properties[k].name = "Sub-items" /\ properties[k].type = "relation"

\* C11: for a source schema without a Sub-items relation no updateSchema,
\* retrieveRow or updateRow call is issued
C11_HierarchyOnlyWhenEnabled ==
  ~HasSubItems(source.properties) =>
    \A k \in 1..Len(remote) : remote[k].op \notin HierarchyOps

----------------------------------------------------------------------------
(* Properties of the pure functions (SpecPure) *)

\* the call of op has returned
Returned(op) == fn.op = op /\ ~fn.threw

\* obj has an entry equal to entry
Contains(obj, entry) == \E k \in 1..Len(obj) : obj[k] = entry

\* C12: the result of filterDatabaseSchemaProperties has no relation and no
\* rollup field, and has every field of S of another kind (it renames none),
\* with its definition
C12_SchemaFilterDropsRelations ==
  Returned("filterDatabaseSchemaProperties") =>
    /\ \A k \in 1..Len(fn.returned) : fn.returned[k].type \notin {"relation", "rollup"}
    /\ \A k \in 1..Len(fn.schema) :
         fn.schema[k].type \notin {"relation", "rollup"} =>
           Contains(fn.returned, fn.schema[k])

\* C12 witness: of a relation, a rollup and a title field the title is returned
C12_Witness ==
  /\ Returned("filterDatabaseSchemaProperties")
  /\ \E a, b, c \in 1..Len(fn.schema) :
       /\ fn.schema[a].type = "relation"
       /\ fn.schema[b].type = "rollup"
       /\ fn.schema[c].type = "title"
  /\ Len(fn.schema) = 3
  /\ Len(fn.returned) = 1

\* S has a field named Done that is neither a relation nor a rollup
HasDone(properties) ==
  \E k \in 1..Len(properties) :
    properties[k].name = "Done" /\ properties[k].type \notin {"relation", "rollup"}

\* C13: for a schema with a field named Done (not a relation or rollup), the
\* result of the schema filter starts with the field renamed "1. Done" and has
\* no field named "Done"
C13_DoneRenamedFirst ==
  (Returned("filterDatabaseSchemaProperties") /\ HasDone(fn.schema)) =>
    /\ \A k \in 1..Len(fn.returned) : fn.returned[k].name # "Done"
    /\ fn.returned # <<>>
    /\ fn.returned[1].name = "1. Done"

\* the names the prefixed schema filter passes through: those of the fields of
\* S it neither skips nor renames
PassThroughNames(properties) ==
  {properties[k].name : k \in {m \in 1..Len(properties) :
      /\ properties[m].type \notin {"relation", "rollup"}
      /\ properties[m].name \notin {"Done", "Last Edited By"}}}

\* C14: in the result of the prefixed schema filter the field
\* "z. Last Edited By" comes after every pass-through field
C14_LaterPrefixLast ==
  Returned("filterDatabaseSchemaPropertiesPrefixed") =>
    \E z \in 1..Len(fn.returned) :
      /\ fn.returned[z].name = "z. Last Edited By"
      /\ \A k \in 1..Len(fn.returned) :
           (fn.returned[k].name \in PassThroughNames(fn.schema) \ {"z. Last Edited By"})
             => k < z

\* the first option named Done, done or DONE of a list of options, 0 if none
FirstDone(options) ==
  IF \E k \in 1..Len(options) : options[k] \in {"Done", "done", "DONE"}
  THEN CHOOSE k \in 1..Len(options) :
         /\ options[k] \in {"Done", "done", "DONE"}
         /\ \A m \in 1..(k - 1) : options[m] \notin {"Done", "done", "DONE"}
  ELSE 0

\* to is from with its option at position d moved to the front and the other
\* options in their order
MovedToFront(from, to, d) ==
  /\ Len(to) = Len(from)
  /\ to[1] = from[d]
  /\ \A k \in 1..(d - 1) : to[k + 1] = from[k]
  /\ \A k \in (d + 1)..Len(from) : to[k] = from[k]

\* what C15 asks of one select field and what is returned for it
DoneMoved(given, result) ==
  IF given.hasOptions /\ FirstDone(given.options) > 1
  THEN /\ result.name = given.name
       /\ result.type = given.type
       /\ result.hasOptions
       /\ MovedToFront(given.options, result.options, FirstDone(given.options))
  ELSE result = given

C16_RowFilterDropsKinds ==
  Returned("filterPropertiesForCreation") =>
    \A k \in 1..Len(fn.returned) :
      fn.returned[k].type \notin {"relation", "rollup", "formula", "created_by",
                                  "last_edited_by", "created_time", "last_edited_time"}

\* C16 witness: of a formula, a created_time and a title entry the title is returned
C16_Witness ==
  /\ Returned("filterPropertiesForCreation")
  /\ \E a, b, c \in 1..Len(fn.properties) :
       /\ fn.properties[a].type = "formula"
       /\ fn.properties[b].type = "created_time"
       /\ fn.properties[c].type = "title"
  /\ Len(fn.properties) = 3
  /\ Len(fn.returned) = 1

\* C17: every entry of R of a kind that is not dropped is in the result with
\* its value: under the prefixed name, its own name being absent, when its name
\* is in the rename table, under its own name otherwise; an empty R gives an
\* empty result
C17_RowFilterKeepsValues ==
  Returned("filterPropertiesForCreation") =>
    /\ fn.properties = <<>> => fn.returned = <<>>
    /\ \A k \in 1..Len(fn.properties) :
         fn.properties[k].type \notin CreationDropped =>
           IF fn.properties[k].name \in {"Done", "Last Edited By"}
           THEN /\ Contains(fn.returned,
                            [fn.properties[k] EXCEPT
                               !.name = IF fn.properties[k].name = "Done" THEN "1. Done"
                                        ELSE "z. Last Edited By"])
                /\ \A m \in 1..Len(fn.returned) :
                     fn.returned[m].name # fn.properties[k].name
           ELSE Contains(fn.returned, fn.properties[k])

C19_ExampleClone ==
  (/\ source = ExampleSource
   /\ Succeeded
   /\ \A k \in 1..Len(remote) : remote[k].status # "rejected") =>
    /\ \E k \in Calls(remote, "createDatabase") :
         remote[k].properties =
           << Field("Name", "title"),
              SelectField("Status", <<"Done", "To Do", "In Progress">>) >>
    /\ sent[1].copiedPagesCount = 3

\* the characters of id that are not hyphens
NonHyphens(id) == {k \in 1..Len(id) : id[k] # "-"}

\* C20: validateNotionId returns exactly for the identifiers with 32 characters
\* other than hyphens, all of them hexadecimal digits of either case, and
\* throws for all others; the call leaves the handler and the service as
\* they were
C20_ValidateNotionIdExact ==
  fn.op = "validateNotionId" =>
    /\ ~fn.threw <=>
         /\ Cardinality(NonHyphens(fn.id)) = 32
         /\ \A k \in NonHyphens(fn.id) :
              fn.id[k] \in {"0", "1", "2", "3", "4", "5", "6", "7", "8", "9",
                            "a", "b", "c", "d", "e", "f", "A", "B", "C", "D", "E", "F"}
    /\ pc = "start" /\ sent = <<>> /\ remote = <<>>

\* C20 witness: an identifier with hyphens and letters of both cases was accepted
C20_Witness ==
  /\ fn.op = "validateNotionId"
  /\ ~fn.threw
  /\ \E a, b, c \in 1..Len(fn.id) : fn.id[a] = "-" /\ fn.id[b] = "a" /\ fn.id[c] = "B"

----------------------------------------------------------------------------
(* Properties of the handler's entry (SpecFlatSmall) *)

\* the three variables of the configuration are set
Configured ==
  /\ req.env.NOTION_TOKEN
  /\ req.env.SOURCE_DATABASE_ID # Unset
  /\ req.env.PARENT_PAGE_ID # Unset

IdTypes == {"SOURCE_DATABASE_ID", "PARENT_PAGE_ID"}

\* C21: for a POST with the configuration set and a source-database or
\* parent-page identifier that fails validation, no remote call is ever issued,
\* the handler answers once, with an error status, and the message of the error
\* raised (sent as details when NODE_ENV is development) names a parameter
\* whose identifier fails validation
C21_InvalidIdNoRemoteCall ==
  (/\ req.method = "POST"
   /\ Configured
   /\ \E idType \in IdTypes : ~validateNotionId(req.env[idType])) =>
    /\ remote = <<>>
    /\ pc = "done" =>
         /\ Len(sent) = 1
         /\ sent[1].kind = "error"
         /\ sent[1].status \in 400..599
         /\ sent[1].details # <<>> =>
              \E idType \in IdTypes :
                /\ Includes(sent[1].details, idType)
                /\ ~validateNotionId(req.env[idType])

\* C21 witness: the parent-page identifier "invalid-id" was refused in
\* development mode, after the source-database identifier had passed
C21_Witness ==
  /\ pc = "done"
  /\ req.method = "POST"
  /\ req.env.SOURCE_DATABASE_ID = GoodId
  /\ req.env.PARENT_PAGE_ID = BadId
  /\ remote = <<>>
  /\ sent[1].status = 500
  /\ Includes(sent[1].details, "PARENT_PAGE_ID")

C27_HealthReflectsConfiguration ==
  pc = "done" =>
    /\ Len(sent) = 1
    /\ req.method = "GET" =>
         IF Configured
         THEN sent[1].status = 200 /\ sent[1].health = "healthy"
         ELSE sent[1].status = 503 /\ sent[1].health = "unhealthy"
    /\ req.method = "OPTIONS" => sent[1].status = 200

\* the response carries the header name with the value value
HasHeader(response, name, value) ==
  \E h \in 1..Len(response.headers) :
    response.headers[h].name = name /\ response.headers[h].value = value

\* the response carries the three CORS headers
HasCorsHeaders(response) ==
  /\ HasHeader(response, "Access-Control-Allow-Origin", "*")
  /\ HasHeader(response, "Access-Control-Allow-Methods", "POST, OPTIONS")
  /\ HasHeader(response, "Access-Control-Allow-Headers", "Content-Type, Authorization")

\* C26: whatever the configuration, a request that is not a POST leads to no
\* remote call; an OPTIONS request is answered once, with status 200, no body
\* and the CORS headers; a request of another method than POST and OPTIONS is
\* answered once, with status 405, the error "Method not allowed" and the CORS
\* headers
C26_PreflightAndOtherMethods ==
  req.method # "POST" =>
    /\ remote = <<>>
    /\ pc = "done" =>
         /\ Len(sent) = 1
         /\ HasCorsHeaders(sent[1])
         /\ IF req.method = "OPTIONS"
              THEN sent[1].status = 200 /\ sent[1].kind = "end"
              ELSE sent[1].status = 405 /\ sent[1].error = "Method not allowed"

\* C26 witness: a GET was answered 405 although no variable of the
\* configuration was set
C26_Witness ==
  /\ pc = "done"
  /\ req.method = "GET"
  /\ ~req.env.NOTION_TOKEN
  /\ req.env.SOURCE_DATABASE_ID = Unset
  /\ req.env.PARENT_PAGE_ID = Unset
  /\ sent[1].status = 405
  /\ remote = <<>>

----------------------------------------------------------------------------
(* Properties of the writes (SpecHier) *)

\* the identifiers of the rows of the source database
SourceRowIds == {source.rows[n].id : n \in 1..Len(source.rows)}

\* C23: every createRow and every updateSchema call targets the database that
\* createDatabase answered with, which is not the source database, and every
\* updateRow call targets a row a fulfilled createRow call created in it, which
\* is not a row of the source
C23_WritesTargetOnly ==
  \A k \in 1..Len(remote) :
    /\ remote[k].op \in {"createRow", "updateSchema"} =>
         /\ Fulfilled("createDatabase") # {}
         /\ remote[k].target = newDatabase.id
         /\ remote[k].target # req.env.SOURCE_DATABASE_ID
    /\ remote[k].op = "updateRow" =>
         /\ \E m \in Fulfilled("createRow") : remote[k].target = TargetRowId(m)
         /\ remote[k].target \notin SourceRowIds

\* C23 witness: rows were created, the Sub-items field was added and a
\* relationship was written, for a source with a Sub-items entry
C23_Witness ==
  /\ Fulfilled("createRow") # {}
  /\ Fulfilled("updateSchema") # {}
  /\ Fulfilled("updateRow") # {}
  /\ \E n \in 1..Len(source.rows) : source.rows[n].subItems # <<>>

----------------------------------------------------------------------------
(* Properties of two interleaved invocations (SpecPair) *)

\* C24: whatever the interleaving of two invocations, every createRow call of
\* an invocation targets the database that invocation created and not the
\* other's, and the copied count an invocation reports is the number of its
\* own fulfilled createRow calls, with its own database
C24_InvocationsIndependent ==
  \A n \in Invocations :
    /\ \A k \in Calls(runs[n].remote, "createRow") :
         /\ runs[n].remote[k].target = runs[n].newDatabase.id
         /\ \A m \in Invocations \ {n} :
              runs[n].remote[k].target # runs[m].newDatabase.id
    /\ (runs[n].pc = "done" /\ runs[n].sent[1].kind = "success") =>
         /\ Len(runs[n].sent) = 1
         /\ runs[n].sent[1].newDatabaseId = runs[n].newDatabase.id
         /\ runs[n].sent[1].copiedPagesCount =
              Cardinality({k \in Calls(runs[n].remote, "createRow") :
                             runs[n].remote[k].status = "fulfilled"})

\* C24 witness: one invocation has answered with a count of 2 after a failed
\* creation while the other, which created its database first, still has
\* creations outstanding and one fulfilled
C24_Witness ==
  \E n, m \in Invocations :
    /\ runs[n].pc = "done"
    /\ runs[n].sent[1].kind = "success"
    /\ runs[n].sent[1].copiedPagesCount = 2
    /\ \E k \in Calls(runs[n].remote, "createRow") : runs[n].remote[k].status = "rejected"
    /\ runs[n].newDatabase.id = DatabaseIds[2]
    /\ runs[m].pc = "batch"
    /\ Pending(runs[m].remote, "createRow") # {}
    /\ \E k \in Calls(runs[m].remote, "createRow") : runs[m].remote[k].status = "fulfilled"

----------------------------------------------------------------------------
(* Termination (SpecFlatFair) *)

\* C25: when every remote call settles, the invocation ends: the handler
\* sends one response, a success or an error (or the empty answer to a
\* preflight request)
C25_HandlerResponds ==
  <>(pc = "done" /\ Len(sent) = 1 /\ sent[1].kind \in {"success", "error", "end"})

\* C25 witness: the handler answered with a success after three pages and two
\* batches, a creation of each batch having failed
C25_Witness ==
  /\ Succeeded
  /\ pages = 3
  /\ batches = 2
  /\ \E k \in Rejected("createRow") : remote[k].batch = 1
  /\ \E k \in Rejected("createRow") : remote[k].batch = 2

----------------------------------------------------------------------------
(* Properties of the Hierarchy Applier (SpecHier, SpecHierDeep) *)

\* the relationship of number n has an end that the identity map does not hold
Unmapped(n) ==
  \/ hier.relationships[n].parentId \notin DOMAIN hier.pageMapping
  \/ hier.relationships[n].childId \notin DOMAIN hier.pageMapping

\* the calls of operation op issued for the relationship of number n
EdgeCalls(n, op) == {k \in Calls(remote, op) : remote[k].row = n}

\* C28: no retrieveRow and no updateRow call is ever issued for a relationship
\* with an end absent from the identity map, and when the handler has answered
\* every other relationship has had its retrieveRow call
C28_UnmappedEdgesSkipped ==
  \A n \in 1..Len(hier.relationships) :
    IF Unmapped(n)
    THEN EdgeCalls(n, "retrieveRow") = {} /\ EdgeCalls(n, "updateRow") = {}
    ELSE pc = "done" => EdgeCalls(n, "retrieveRow") # {}

\* C28 witness: of two relationships the one whose child row was not created
\* was skipped and the other one was written
C28_Witness ==
  /\ Succeeded
  /\ Len(hier.relationships) = 2
  /\ \E n, m \in 1..2 :
       /\ Unmapped(n)
       /\ hier.relationships[n].parentId \in DOMAIN hier.pageMapping
       /\ ~Unmapped(m)
       /\ \E k \in EdgeCalls(m, "updateRow") : remote[k].status = "fulfilled"

\* the retrieveRow and updateRow calls issued so far
AllEdgeCalls == Calls(remote, "retrieveRow") \cup Calls(remote, "updateRow")

\* C29: once a retrieveRow or updateRow call has failed, the handler never
\* answers with an error, and when it has answered it has answered with a
\* success and every relationship with both ends mapped, of the same batch and
\* of the later ones, has had its retrieveRow call
C29_EdgeFailuresNotFatal ==
  (Rejected("retrieveRow") \cup Rejected("updateRow") # {}) =>
    /\ \A r \in 1..Len(sent) : sent[r].kind = "success"
    /\ pc = "done" =>
         /\ Succeeded
         /\ \A n \in 1..Len(hier.relationships) :
              ~Unmapped(n) => EdgeCalls(n, "retrieveRow") # {}

\* C29 witness: the handler answered with a success after a failed read and a
\* failed write in the first batch, a relationship of the same batch having
\* been written after a failure, and the one of the second batch too
C29_Witness ==
  /\ Succeeded
  /\ \E k \in Rejected("retrieveRow"), m \in Fulfilled("updateRow") :
       remote[k].batch = 1 /\ remote[m].batch = 1 /\ k < m
  /\ \E k \in Rejected("updateRow") : remote[k].batch = 1
  /\ \E m \in Fulfilled("updateRow") : remote[m].batch = 2

\* the relationships in progress: a call made for them is outstanding
InProgress == {remote[k].row : k \in {m \in AllEdgeCalls : remote[m].status = "pending"}}

\* C30: at most 5 relationships are in progress; the calls of a relationship
\* carry the number of its batch, relationships 1 to 5 being the first batch,
\* 6 to 10 the second, and so on; and when a call of a batch has been issued,
\* every call of the batches before it was issued earlier and has settled
C30_EdgeBatchesSequential ==
  /\ Cardinality(InProgress) <= 5
  /\ \A k \in AllEdgeCalls : remote[k].batch = ((remote[k].row - 1) \div 5) + 1
  /\ \A m \in AllEdgeCalls :
       remote[m].batch > 1 =>
         \A k \in AllEdgeCalls :
           remote[k].batch < remote[m].batch => k < m /\ remote[k].status # "pending"

\* C30 witness: the sixth relationship is in progress after the five of the
\* first batch have all been read, one of them in vain
C30_Witness ==
  /\ InProgress = {6}
  /\ \A n \in 1..5 : EdgeCalls(n, "retrieveRow") # {}
  /\ \E k \in Rejected("retrieveRow") : remote[k].batch = 1

----------------------------------------------------------------------------
(* Properties of the written relation and of the identity map (SpecHierTitled) *)

\* the updateRow calls a step issues
NewUpdates == Calls(remote', "updateRow") \ Calls(remote, "updateRow")

\* C31: a relationship has at most one retrieveRow and at most one updateRow
\* call, its updateRow call comes after its retrieveRow call has succeeded, and
\* the list the updateRow call carries is the Sub-items relation the service
\* held when it answered that retrieveRow call, entry for entry, followed by
\* the target of the child, whether that list holds the child already or not
C31_WriteIsReadPlusChild ==
  /\ [](\A n \in 1..Len(hier.relationships) :
          /\ Cardinality(EdgeCalls(n, "retrieveRow")) <= 1
          /\ Cardinality(EdgeCalls(n, "updateRow")) <= 1
          /\ \A k \in EdgeCalls(n, "updateRow") :
               \E m \in EdgeCalls(n, "retrieveRow") :
                 /\ m < k
                 /\ remote[m].status = "fulfilled"
                 /\ remote[m].target = remote[k].target)
  /\ [][\A k \in NewUpdates :
          /\ \E m \in Pending(remote, "retrieveRow") :
               /\ remote[m].row = remote'[k].row
               /\ remote'[m].status = "fulfilled"
          /\ remote'[k].properties =
               Relation(written, remote'[k].target)
                 \o <<hier.pageMapping[hier.relationships[remote'[k].row].childId]>>]_vars

\* C31 witness: an updateRow call succeeded whose list holds the child twice,
\* the child having been in the relation when it was read
C31_Witness ==
  \E k \in Fulfilled("updateRow") :
    LET list == remote[k].properties
    IN  /\ Len(list) >= 2
        /\ list[Len(list)] \in Range(SubSeq(list, 1, Len(list) - 1))

\* the title text of a row as the service holds it: "" when it has none
TitleText(row) == IF row.title = <<>> THEN "" ELSE row.title[1]

\* the rows of targetPages whose title text is that of the source row, in
\* query order
SameTitled(sourceRow) ==
  SelectSeq(hier.targetPages, LAMBDA target : TitleText(target) = TitleText(sourceRow))

\* restoreHierarchy has built the identity map
MappingBuilt == hier.fetching = "target" /\ (pc = "applyRelationships" \/ Succeeded)

\* C32: once the identity map is built, a source row that has a title and
\* shares it with a target row is mapped to the first such target row in query
\* order, every other source row is unmapped, and the map holds nothing else
C32_MappingByTitle ==
  MappingBuilt =>
    /\ DOMAIN hier.pageMapping \subseteq {hier.sourcePages[n].id : n \in 1..Len(hier.sourcePages)}
    /\ \A n \in 1..Len(hier.sourcePages) :
         LET row == hier.sourcePages[n]
         IN  IF TitleText(row) # "" /\ SameTitled(row) # <<>>
             THEN /\ row.id \in DOMAIN hier.pageMapping
                  /\ hier.pageMapping[row.id] = SameTitled(row)[1].id
             ELSE row.id \notin DOMAIN hier.pageMapping

\* C32 witness: of three source rows one has no title and is unmapped, and two
\* share a title and are mapped to the same target row, the first of two
\* target rows of that title
C32_Witness ==
  /\ MappingBuilt
  /\ \E a, b, c \in 1..Len(hier.sourcePages) :
       LET rows == hier.sourcePages
       IN  /\ TitleText(rows[a]) = "" /\ rows[a].id \notin DOMAIN hier.pageMapping
           /\ b # c /\ TitleText(rows[b]) = TitleText(rows[c])
           /\ rows[b].id \in DOMAIN hier.pageMapping
           /\ rows[c].id \in DOMAIN hier.pageMapping
           /\ hier.pageMapping[rows[b].id] = hier.pageMapping[rows[c].id]
           /\ Len(SameTitled(rows[b])) = 2

\* the relationships the fields of the fetched source rows state: a row is the
\* parent of every row its Sub-items field lists
StatedBySubItems ==
  UNION {{[parentId |-> hier.sourcePages[n].id, childId |-> c] :
            c \in Range(hier.sourcePages[n].subItems)} : n \in 1..Len(hier.sourcePages)}

\* and the child of every row its Parent item field lists
StatedByParentItem ==
  UNION {{[parentId |-> q, childId |-> hier.sourcePages[n].id] :
            q \in Range(hier.sourcePages[n].parentItems)} : n \in 1..Len(hier.sourcePages)}

\* C33: once the relationships are found, they are the pairs (row, listed row)
\* of the Sub-items fields and the pairs (listed row, row) of the Parent item
\* fields of the source rows, and no others
C33_BothDirections ==
  MappingBuilt => Range(hier.relationships) = StatedBySubItems \cup StatedByParentItem

----------------------------------------------------------------------------
(* Frame properties of the schema filters (SpecPure) *)

\* the schema filters that rename no field
SchemaFilters == {"filterDatabaseSchemaProperties", "filterDatabaseSchemaPropertiesDoneFirst"}

\* the place in the schema given of the m-th field returned, 0 if it has none
PlaceGiven(m) == IndexOfKey(fn.schema, fn.returned[m].name)

\* C34: the fields a schema filter returns are fields of the schema given, in
\* the order they have there; a field comes back with the definition given,
\* except that a select field that went through moveDoneToFirst may have its
\* options in another order, and such a field is still in its place among the
\* others; and the call leaves the schema given as it was
C34_FilterKeepsOrderAndInput ==
  /\ [](\A op \in SchemaFilters :
          Returned(op) =>
            /\ \A m \in 1..Len(fn.returned) : PlaceGiven(m) # 0
            /\ \A a, b \in 1..Len(fn.returned) : a < b => PlaceGiven(a) < PlaceGiven(b)
            /\ \A m \in 1..Len(fn.returned) :
                 LET given == fn.schema[PlaceGiven(m)]
                     result == fn.returned[m]
                 IN  IF op = "filterDatabaseSchemaPropertiesDoneFirst" /\ given.type = "select"
                     THEN /\ result.type = given.type
                          /\ result.hasOptions = given.hasOptions
                          /\ Len(result.options) = Len(given.options)
                          /\ Range(result.options) = Range(given.options)
                     ELSE result = given)
  /\ [][fn'.schema = fn.schema]_vars

\* C34 witness: a select field given between two other fields came back between
\* them with Done moved to the front of its options
C34_Witness ==
  /\ Returned("filterDatabaseSchemaPropertiesDoneFirst")
  /\ Len(fn.schema) = 3
  /\ Len(fn.returned) = 3
  /\ fn.returned[1] = fn.schema[1]
  /\ fn.returned[3] = fn.schema[3]
  /\ fn.schema[2].type = "select"
  /\ fn.returned[2].name = fn.schema[2].name
  /\ fn.returned[2].options # fn.schema[2].options
  /\ fn.returned[2].options[1] = "Done"

----------------------------------------------------------------------------
(* Properties of the catch block and of the responses (SpecFlatSmall) *)

\* the calls that rejected with an error nothing caught before the catch block
\* of handler
Uncaught ==
  {k \in 1..Len(remote) :
     /\ remote[k].status = "rejected"
     /\ remote[k].op \in {"retrieveSchema", "createDatabase", "queryRows"}}

\* the message of the error the catch block of handler was entered with: that
\* of the remote call that failed, or that of the validation that failed
Thrown ==
  IF Uncaught # {} THEN remote[CHOOSE k \in Uncaught : TRUE].error
  ELSE IF ~req.env.NOTION_TOKEN THEN <<"NOTION_TOKEN", "environment variable", "is required">>
  ELSE IF req.env.SOURCE_DATABASE_ID = Unset
    THEN <<"SOURCE_DATABASE_ID", "environment variable", "is required">>
  ELSE IF req.env.PARENT_PAGE_ID = Unset
    THEN <<"PARENT_PAGE_ID", "environment variable", "is required">>
  ELSE <<"Invalid", "format">>

C36_ExactlyOneResponse ==
  /\ Len(sent) <= 1
  /\ pc = "done" <=> Len(sent) = 1
  /\ Len(sent) = 1 =>
       IF req.method = "OPTIONS" THEN sent[1].kind = "end"
       ELSE IF req.method # "POST" THEN sent[1].kind = "error" /\ sent[1].status = 405
       ELSE sent[1].kind \in {"success", "error"} /\ sent[1].status # 405

\* C36 witness: the one response is the failure of the creation of the target
\* database, after the schema of the source was retrieved
C36_Witness ==
  /\ Len(sent) = 1
  /\ sent[1].status = 401
  /\ Fulfilled("retrieveSchema") # {}
  /\ Rejected("createDatabase") # {}
  /\ Calls(remote, "queryRows") = {}

----------------------------------------------------------------------------
(* Properties of the paginator against any service (SpecFlatLossy) *)

\* C37: no two queryRows calls of the pagination carry the same cursor, the
\* absent one included, and the call outstanding after a response carries the
\* next cursor of that response
C37_CursorsDistinct ==
  /\ \A k, m \in Calls(remote, "queryRows") :
       (remote[k].target = remote[m].target /\ remote[k].cursor = remote[m].cursor) => k = m
  /\ (pc = "queryRows" /\ pages > 0) =>
       \A k \in Pending(remote, "queryRows") : remote[k].cursor = startCursor

----------------------------------------------------------------------------
(* Properties of the handler that counts failures (SpecTracking) *)

\* C38: every field of the properties sent with a createRow call is, under the
\* same name and with the same kind, a field of the properties sent with the
\* createDatabase call
C38_FiltersAgree ==
  \A k \in Calls(remote, "createRow") :
    \A e \in Range(remote[k].properties) :
      \E d \in Calls(remote, "createDatabase") :
        \E f \in Range(remote[d].properties) : f.name = e.name /\ f.type = e.type

\* C39: successfulCopies and failedCopies add up to copiedCount after every
\* batch and at the end; at the end copiedCount is the number of rows fetched,
\* all rows of the source, so that the count in the response and failedCopies
\* add up to it
C39_CountsAddUp ==
  /\ successfulCopies + failedCopies = copiedCount
  /\ Succeeded =>
        /\ copiedCount = Len(allPages)
        /\ Len(allPages) = Len(source.rows)
        /\ sent[1].copiedPagesCount = successfulCopies
        /\ sent[1].copiedPagesCount + failedCopies = Len(source.rows)

\* two batches were copied, rows of both failed, others were created
C39_Witness ==
  /\ variant = "tracking"
  /\ Succeeded
  /\ Len(allPages) > BATCH_SIZE
  /\ \E a, b \in Rejected("createRow") : remote[a].batch # remote[b].batch
  /\ failedCopies >= 2
  /\ successfulCopies >= 1

====
